---- MODULE Spec2Model ----
(***************************************************************************)
(* Model of the extraction-and-reconciliation engine of book_agent:        *)
(* the call-number normalizer, the catalog matcher (find_or_create_book,   *)
(* find_matching_book), the description reconciler                         *)
(* (insert_or_update_description, in its always-overwrite and truthy-only  *)
(* revisions) and the three batch drivers (fast_process, mcp_server,       *)
(* db_description_update).                                                 *)
(*                                                                         *)
(* Strings that the code inspects character by character (call numbers)    *)
(* are sequences of one-character strings.  The store is the pair          *)
(* (books, descs); books is a sequence in the order in which a full scan   *)
(* of the table lists the rows.                                            *)
(***************************************************************************)
EXTENDS Integers, Sequences, FiniteSets, TLC

VARIABLES books, descs, last, created,
          variant, descTable, booksTable, folder, pc, run, idx, stats,
          outcome, committed, snap, fcall, overlap

vars == <<books, descs, last, created,
          variant, descTable, booksTable, folder, pc, run, idx, stats,
          outcome, committed, snap, fcall, overlap>>

apiVars == <<last, created>>
batchVars == <<variant, descTable, booksTable, folder, pc, run, idx, stats,
               outcome, committed, snap, fcall, overlap>>

(***************************************************************************)
(* Bounds of the model.                                                    *)
(***************************************************************************)
MaxInitBooks == 2    \* rows of books in an initial catalog
MaxBooks == 3        \* rows of books the matcher may grow the table to
MaxDescs == 3        \* rows of book_descriptions
MaxDocs == 2         \* documents in the folder of a batch run
MaxRuns == 2         \* batch runs over the same folder and store
MaxLen == 5          \* characters of a call number given to the normalizer
MaxToken == 3        \* characters between the markers of a file name
MaxParRuns == 2      \* runs of a paragraph given to the assembler
MaxParagraphs == 3   \* paragraphs of a document given to the extraction
MaxOverlapDocs == 2  \* documents in the folder of each of two overlapping runs

\* Python's None where a string is expected (never a character sequence,
\* whose elements are one-character strings)
None == <<"None">>

(***************************************************************************)
(* Program constants.                                                      *)
(***************************************************************************)
CINQUECENTINE_COLLECTION_ID == 4
INCUNABOLI_COLLECTION_ID == 3

Collections == {CINQUECENTINE_COLLECTION_ID, INCUNABOLI_COLLECTION_ID}

(***************************************************************************)
(* Character classes used by the regular expressions and by str methods.   *)
(***************************************************************************)
DigitChars == {"0", "1", "4", "5", "9"}
UpperChars == {"A", "B", "Z"}
LowerChars == {"a", "b"}
SpaceChars == {" ", "\n"}

\* str.upper() / SQL UPPER() on one character of the alphabet
UpperChar(c) == IF c = "a" THEN "A" ELSE IF c = "b" THEN "B" ELSE c

upper(s) == [i \in 1..Len(s) |-> UpperChar(s[i])]

\* str.strip(): drop leading and trailing whitespace
RECURSIVE lstrip(_)
lstrip(s) == IF s # <<>> /\ Head(s) \in SpaceChars THEN lstrip(Tail(s)) ELSE s

RECURSIVE rstrip(_)
rstrip(s) ==
    IF s # <<>> /\ s[Len(s)] \in SpaceChars
    THEN rstrip(SubSeq(s, 1, Len(s) - 1)) ELSE s

strip(s) == rstrip(lstrip(s))

\* length of the longest prefix of s made of characters of class C
RECURSIVE SpanLen(_, _)
SpanLen(s, C) ==
    IF s # <<>> /\ Head(s) \in C THEN 1 + SpanLen(Tail(s), C) ELSE 0

\* str(int(num)) for a non-empty digit string: leading zeros dropped,
\* one digit kept when the string is all zeros
RECURSIVE StrInt(_)
StrInt(num) ==
    IF Len(num) > 1 /\ Head(num) = "0" THEN StrInt(Tail(num)) ELSE num

\* re.match(r'^(\d+)([A-Z]+)(\d+)$', number): the three groups, or None
MatchNumber(number) ==
    LET p == SpanLen(number, DigitChars)
        r1 == SubSeq(number, p + 1, Len(number))
        q == SpanLen(r1, UpperChars)
        r2 == SubSeq(r1, q + 1, Len(r1))
        d == SpanLen(r2, DigitChars)
    IN  [ok |-> p > 0 /\ q > 0 /\ d > 0 /\ d = Len(r2),
         prefix |-> SubSeq(number, 1, p),
         letter |-> SubSeq(r1, 1, q),
         num |-> r2]

\* a normalizer that removes one leading zero of the last group
normalize_book_number_one_zero(number) ==
    IF number = None \/ number = <<>> THEN <<>>
    ELSE LET n == upper(strip(number))
             m == MatchNumber(n)
         IN  IF m.ok
             THEN m.prefix \o m.letter
                  \o (IF Len(m.num) > 1 /\ Head(m.num) = "0" THEN Tail(m.num)
                      ELSE m.num)
             ELSE n

\* a normalizer that does not trim
normalize_book_number_no_strip(number) ==
    IF number = None \/ number = <<>> THEN <<>>
    ELSE LET n == upper(number)
             m == MatchNumber(n)
         IN  IF m.ok THEN m.prefix \o m.letter \o StrInt(m.num) ELSE n

\* normalize_book_number of fast_process, mcp_server and
\* db_description_update: "" for a falsy input, else the trimmed, uppercased
\* string, with str(int(.)) of the last group when it matches
normalize_book_number(number) ==
    IF number = None \/ number = <<>> THEN <<>>
    ELSE LET n == upper(strip(number))
             m == MatchNumber(n)
         IN  IF m.ok THEN m.prefix \o m.letter \o StrInt(m.num) ELSE n

(***************************************************************************)
(* The catalog matcher.  A row of books is                                 *)
(* [book_id, collection_id, number, author]; a SELECT without ORDER BY     *)
(* lists the rows in the order of the sequence, and fetchone() takes the   *)
(* first row of the result.                                                *)
(***************************************************************************)
NoBook == [book_id |-> 0, number |-> <<>>]

\* indexes of the rows of bks that satisfy the WHERE clause P
Select(bks, P(_)) == {i \in 1..Len(bks) : P(bks[i])}

First(S) == CHOOSE i \in S : \A j \in S : i <= j

\* cursor.lastrowid of an INSERT INTO books: a rowid not yet in use
NewBookId(bks) ==
    1 + (IF bks = <<>> THEN 0
         ELSE CHOOSE m \in {bks[i].book_id : i \in 1..Len(bks)} :
                \A i \in 1..Len(bks) : bks[i].book_id <= m)

\* SELECT ... WHERE collection_id = ? AND UPPER(number) = ?  with the
\* parameter file_number.upper()
ExactRows(bks, file_number, collection_id) ==
    LET P(b) == b.collection_id = collection_id
                /\ upper(b.number) = upper(file_number)
    IN  Select(bks, P)

\* a normalized pass that scans the whole table, not only the collection
NormalizedRows_any_collection(bks, file_number, collection_id) ==
    LET P(b) == normalize_book_number(b.number)
                  = normalize_book_number(file_number)
    IN  Select(bks, P)

\* SELECT ... WHERE collection_id = ?  and the scan of its rows for an equal
\* normalized number
NormalizedRows(bks, file_number, collection_id) ==
    LET P(b) == b.collection_id = collection_id
                /\ normalize_book_number(b.number)
                     = normalize_book_number(file_number)
    IN  Select(bks, P)

RowMatch(bks, i) == [book_id |-> bks[i].book_id, number |-> bks[i].number]

\* a matcher without the exact pass
find_matching_book_normalized_only(bks, file_number, collection_id) ==
    LET nm == NormalizedRows(bks, file_number, collection_id)
    IN  IF nm # {} THEN RowMatch(bks, First(nm)) ELSE NoBook

\* db_description_update.find_matching_book: the matched (book_id, number),
\* or NoBook for Python's None
find_matching_book(bks, file_number, collection_id) ==
    LET ex == ExactRows(bks, file_number, collection_id)
        nm == NormalizedRows(bks, file_number, collection_id)
    IN  IF ex # {} THEN RowMatch(bks, First(ex))
        ELSE IF nm # {} THEN RowMatch(bks, First(nm))
        ELSE NoBook

\* the row INSERT INTO books (collection_id, number, author) creates
CreatedBook(bks, file_number, collection_id, author) ==
    [book_id |-> NewBookId(bks),
     collection_id |-> collection_id,
     number |-> file_number,
     author |-> IF author \in {"None", ""} THEN "Unknown" ELSE author]

\* a matcher that compares the stored numbers as they are stored: neither
\* UPPER(number) in the exact pass nor normalization of the scanned rows
find_or_create_book_raw_stored(bks, file_number, collection_id, author, reject) ==
    LET P(b) == b.collection_id = collection_id
                /\ b.number \in {upper(file_number),
                                 normalize_book_number(file_number)}
        rows == Select(bks, P)
        row == CreatedBook(bks, file_number, collection_id, author)
    IN  IF rows # {}
        THEN [books |-> bks, match |-> RowMatch(bks, First(rows)), status |-> "found"]
        ELSE IF reject
        THEN [books |-> bks, match |-> NoBook, status |-> "error"]
        ELSE [books |-> Append(bks, row),
              match |-> [book_id |-> row.book_id, number |-> file_number],
              status |-> "created"]

\* a matcher that has no normalized pass
find_or_create_book_exact_only(bks, file_number, collection_id, author, reject) ==
    LET ex == ExactRows(bks, file_number, collection_id)
        row == CreatedBook(bks, file_number, collection_id, author)
    IN  IF ex # {}
        THEN [books |-> bks, match |-> RowMatch(bks, First(ex)), status |-> "found"]
        ELSE IF reject
        THEN [books |-> bks, match |-> NoBook, status |-> "error"]
        ELSE [books |-> Append(bks, row),
              match |-> [book_id |-> row.book_id, number |-> file_number],
              status |-> "created"]

\* a matcher that creates nothing and returns no item for a call number
\* it does not find
find_or_create_book_lookup_only(bks, file_number, collection_id, author, reject) ==
    [books |-> bks,
     match |-> find_matching_book(bks, file_number, collection_id),
     status |-> IF find_matching_book(bks, file_number, collection_id) = NoBook
                THEN "not_found" ELSE "found"]

\* a matcher that returns the call number it was given with the item it found
find_or_create_book_file_number(bks, file_number, collection_id, author, reject) ==
    LET ex == ExactRows(bks, file_number, collection_id)
        nm == NormalizedRows(bks, file_number, collection_id)
        row == CreatedBook(bks, file_number, collection_id, author)
    IN  IF ex # {}
        THEN [books |-> bks,
              match |-> [book_id |-> bks[First(ex)].book_id, number |-> file_number],
              status |-> "found"]
        ELSE IF nm # {}
        THEN [books |-> bks,
              match |-> [book_id |-> bks[First(nm)].book_id, number |-> file_number],
              status |-> "found"]
        ELSE IF reject
        THEN [books |-> bks, match |-> NoBook, status |-> "error"]
        ELSE [books |-> Append(bks, row),
              match |-> [book_id |-> row.book_id, number |-> file_number],
              status |-> "created"]

\* a matcher that stores the normalized call number in the item it creates
find_or_create_book_normalizing(bks, file_number, collection_id, author, reject) ==
    LET ex == ExactRows(bks, file_number, collection_id)
        nm == NormalizedRows(bks, file_number, collection_id)
        row == CreatedBook(bks, normalize_book_number(file_number),
                           collection_id, author)
    IN  IF ex # {}
        THEN [books |-> bks, match |-> RowMatch(bks, First(ex)), status |-> "found"]
        ELSE IF nm # {}
        THEN [books |-> bks, match |-> RowMatch(bks, First(nm)), status |-> "found"]
        ELSE IF reject
        THEN [books |-> bks, match |-> NoBook, status |-> "error"]
        ELSE [books |-> Append(bks, row),
              match |-> [book_id |-> row.book_id, number |-> file_number],
              status |-> "created"]

\* fast_process / mcp_server find_or_create_book.  reject is the store's
\* answer to the INSERT: TRUE when cursor.execute raises.  The result is
\* the new table, the matched (book_id, number) and the status; an error
\* status comes with no match (Python's None).
find_or_create_book(bks, file_number, collection_id, author, reject) ==
    LET ex == ExactRows(bks, file_number, collection_id)
        nm == NormalizedRows(bks, file_number, collection_id)
        row == CreatedBook(bks, file_number, collection_id, author)
    IN  IF ex # {}
        THEN [books |-> bks, match |-> RowMatch(bks, First(ex)), status |-> "found"]
        ELSE IF nm # {}
        THEN [books |-> bks, match |-> RowMatch(bks, First(nm)), status |-> "found"]
        ELSE IF reject
        THEN [books |-> bks, match |-> NoBook, status |-> "error"]
        ELSE [books |-> Append(bks, row),
              match |-> [book_id |-> row.book_id, number |-> file_number],
              status |-> "created"]

(***************************************************************************)
(* The description reconciler.  A row of book_descriptions is              *)
(* [description_id, book_id, collection_id, number, language, f] where f   *)
(* gives each field column its value or Null.  A field map (the dict       *)
(* data) is a function from some of the columns to strings.                *)
(***************************************************************************)
Null == "<NULL>"
Cols == {"author", "title"}
Values == {"", "v1"}

FieldMaps == UNION {[K -> Values] : K \in SUBSET Cols}

EmptyMap == [k \in {} |-> ""]

\* rows selected by: WHERE book_id = ? AND language = 'it'
ItRows(ds, book_id) == {d \in ds : d.book_id = book_id /\ d.language = "it"}

\* fetchone() on that result: the row with the least rowid
Existing(ds, book_id) ==
    CHOOSE d \in ItRows(ds, book_id) :
        \A e \in ItRows(ds, book_id) : d.description_id <= e.description_id

NewDescriptionId(ds) ==
    1 + (IF ds = {} THEN 0
         ELSE CHOOSE m \in {d.description_id : d \in ds} :
                \A d \in ds : d.description_id <= m)

\* the row an INSERT of full_data creates; columns that are not named get
\* the storage default
InsertedRow(ds, book_id, collection_id, book_number, vals) ==
    [description_id |-> NewDescriptionId(ds),
     book_id |-> book_id,
     collection_id |-> collection_id,
     number |-> book_number,
     language |-> "it",
     f |-> [c \in Cols |-> IF c \in DOMAIN vals THEN vals[c] ELSE Null]]

\* an UPDATE that also clears the columns it is given no value for
UpdatedRows_clearing(ds, description_id, vals) ==
    {IF d.description_id = description_id
     THEN [d EXCEPT !.f = [c \in Cols |-> IF c \in DOMAIN vals
                                          THEN vals[c] ELSE Null]]
     ELSE d : d \in ds}

\* UPDATE book_descriptions SET k = vals[k], ... WHERE description_id = ?
UpdatedRows(ds, description_id, vals) ==
    {IF d.description_id = description_id
     THEN [d EXCEPT !.f = [c \in Cols |-> IF c \in DOMAIN vals
                                          THEN vals[c] ELSE d.f[c]]]
     ELSE d : d \in ds}

\* the keys of data that the truthy-only revision writes
Truthy(data) == {k \in DOMAIN data : data[k] # ""}

\* a reconciler that does not look for an existing row
insert_or_update_description_always_insert(ds, book_id, collection_id, book_number, data, reject) ==
    IF reject THEN [descs |-> ds, action |-> "raised"]
    ELSE [descs |-> ds \cup {InsertedRow(ds, book_id, collection_id,
                                          book_number, data)},
          action |-> "inserted"]

\* db_description_update / mcp_server insert_or_update_description: every
\* key of data is written.  reject is TRUE when the INSERT or UPDATE raises.
\* With an existing row and an empty data the function falls off its end
\* and returns Python's None.
insert_or_update_description(ds, book_id, collection_id, book_number, data, reject) ==
    IF ItRows(ds, book_id) # {}
    THEN IF DOMAIN data # {}
         THEN IF reject THEN [descs |-> ds, action |-> "raised"]
              ELSE [descs |-> UpdatedRows(ds, Existing(ds, book_id).description_id, data),
                    action |-> "updated"]
         ELSE [descs |-> ds, action |-> "None"]
    ELSE IF reject THEN [descs |-> ds, action |-> "raised"]
         ELSE [descs |-> ds \cup {InsertedRow(ds, book_id, collection_id,
                                               book_number, data)},
               action |-> "inserted"]

\* a truthy-only reconciler that leaves an existing row as it is
insert_or_update_description_fast_unchanged(ds, book_id, collection_id, book_number, data, reject) ==
    IF ItRows(ds, book_id) # {} THEN [descs |-> ds, action |-> "no_changes"]
    ELSE insert_or_update_description(ds, book_id, collection_id, book_number,
                                      data, reject)

\* a truthy-only reconciler that writes every key of data
insert_or_update_description_fast_overwriting(ds, book_id, collection_id, book_number, data, reject) ==
    insert_or_update_description(ds, book_id, collection_id, book_number,
                                 data, reject)

\* fast_process insert_or_update_description: only truthy values are
\* written; an INSERT stores a falsy value as NULL
insert_or_update_description_fast(ds, book_id, collection_id, book_number, data, reject) ==
    LET vals == [k \in Truthy(data) |-> data[k]]
        clean == [k \in DOMAIN data |-> IF data[k] # "" THEN data[k] ELSE Null]
    IN  IF ItRows(ds, book_id) # {}
        THEN IF Truthy(data) # {}
             THEN IF reject THEN [descs |-> ds, action |-> "raised"]
                  ELSE [descs |-> UpdatedRows(ds, Existing(ds, book_id).description_id, vals),
                        action |-> "updated"]
             ELSE [descs |-> ds, action |-> "no_changes"]
        ELSE IF reject THEN [descs |-> ds, action |-> "raised"]
             ELSE [descs |-> ds \cup {InsertedRow(ds, book_id, collection_id,
                                                   book_number, clean)},
                   action |-> "inserted"]

Reconcile(rev, ds, book_id, collection_id, book_number, data, reject) ==
    IF rev = "fast"
    THEN insert_or_update_description_fast(ds, book_id, collection_id,
                                           book_number, data, reject)
    ELSE insert_or_update_description(ds, book_id, collection_id,
                                      book_number, data, reject)

(***************************************************************************)
(* Inputs.                                                                 *)
(***************************************************************************)
N5A01 == <<"5", "A", "0", "1">>
N5A1 == <<"5", "A", "1">>
N5a01 == <<"5", "a", "0", "1">>
N5a1 == <<"5", "a", "1">>
N5Z99 == <<"5", "Z", "9", "9">>
N4B1 == <<"4", "B", "1">>

\* call numbers as they may be stored in books.number
StoredNumbers == {N5A01, N5A1, N5a01}
\* call numbers passed to the matcher
InputNumbers == {N5A01, N5A1, N5a1, N5Z99}
\* the author argument: absent, empty, or a name
Authors == {"None", "", "v1"}

BookRows == [book_id : {0}, collection_id : Collections,
             number : StoredNumbers, author : {"Unknown"}]

\* a catalog lists its rows in any order; book_id is the rowid
Catalogs(n) ==
    UNION {{[i \in 1..k |-> [r[i] EXCEPT !.book_id = i]] : r \in [1..k -> BookRows]}
           : k \in 0..n}

NoCall == [op |-> "none", rev |-> "none", book_id |-> 0, collection_id |-> 0,
           number |-> <<>>, author |-> "None", data |-> EmptyMap,
           reject |-> FALSE, status |-> "none", match |-> NoBook]

Revisions == {"fast", "mcp", "dbu"}

\* the counters of a batch run; errors lists, for mcp_server, the index of
\* the document and the kind of each error string
ZeroStats == [processed |-> 0, inserted |-> 0, updated |-> 0, not_found |-> 0,
              books_created |-> 0, errors |-> <<>>]

\* the store and the summary a run left, kept when the next run starts
NoSnap == [books |-> <<>>, descs |-> {}, stats |-> ZeroStats, taken |-> FALSE]

\* a call of one of the pure functions: its name, argument and result
NoFCall == [fn |-> "none", arg |-> <<>>, ret |-> <<>>]

\* the worker threads of the tool server and the lock of the database
\* file: none is running
NoOverlap == [lock |-> 0, txn |-> [books |-> <<>>, descs |-> {}],
              overlapped |-> FALSE, w |-> <<>>]

\* no batch run is in progress
Idle ==
    /\ overlap = NoOverlap
    /\ descTable = TRUE /\ booksTable = TRUE
    /\ folder = <<>> /\ pc = "idle" /\ run = 0 /\ idx = 0
    /\ stats = ZeroStats /\ outcome = "none"
    /\ committed = [books |-> books, descs |-> descs]
    /\ snap = NoSnap

(***************************************************************************)
(* Calls of the matcher on a store, one call per step.                     *)
(***************************************************************************)
InitMatch ==
    /\ books \in Catalogs(MaxInitBooks)
    /\ descs = {}
    /\ last = NoCall
    /\ created = {}
    /\ variant = "none"
    /\ fcall = NoFCall
    /\ Idle

\* the state after find_or_create_book(n, c, a) returned r
FindOrCreateBookStep(n, c, a, reject, r) ==
    /\ books' = r.books
    /\ last' = [NoCall EXCEPT !.op = "find_or_create_book",
                              !.collection_id = c, !.number = n,
                              !.author = a, !.reject = reject,
                              !.status = r.status, !.match = r.match]
    /\ created' = IF r.status = "created"
                  THEN created \cup {[collection_id |-> c, number |-> n,
                                      book_id |-> r.match.book_id]}
                  ELSE created
    /\ UNCHANGED <<descs, batchVars>>

CallFindOrCreateBook ==
    \E n \in InputNumbers, c \in Collections :
        IF find_or_create_book(books, n, c, "None", FALSE).status = "found"
        THEN FindOrCreateBookStep(n, c, "None", FALSE,
                                  find_or_create_book(books, n, c, "None", FALSE))
        ELSE /\ Len(books) < MaxBooks
             /\ \E a \in Authors, reject \in BOOLEAN :
                    FindOrCreateBookStep(n, c, a, reject,
                                         find_or_create_book(books, n, c, a, reject))

CallFindMatchingBook ==
    \E n \in InputNumbers, c \in Collections :
        LET m == find_matching_book(books, n, c)
        IN  /\ last' = [NoCall EXCEPT !.op = "find_matching_book",
                                      !.collection_id = c, !.number = n,
                                      !.status = IF m = NoBook THEN "not_found"
                                                 ELSE "found",
                                      !.match = m]
            /\ UNCHANGED <<books, descs, created, batchVars>>

NextMatch == CallFindOrCreateBook \/ CallFindMatchingBook

SpecMatch == InitMatch /\ [][NextMatch]_vars

(***************************************************************************)
(* Calls of the reconciler on a store, one call per step, all made by the  *)
(* revision named by variant.                                              *)
(***************************************************************************)
DescCatalog ==
    <<[book_id |-> 1, collection_id |-> CINQUECENTINE_COLLECTION_ID,
       number |-> N5A01, author |-> "Unknown"],
      [book_id |-> 2, collection_id |-> INCUNABOLI_COLLECTION_ID,
       number |-> N4B1, author |-> "Unknown"]>>

\* a description row of book b as an earlier run or another tool left it
StoredRow(id, b, lang) ==
    [description_id |-> id, book_id |-> b.book_id,
     collection_id |-> b.collection_id, number |-> b.number,
     language |-> lang, f |-> [c \in Cols |-> IF c = "author" THEN "v0" ELSE Null]]

InitDescSets ==
    {{}, {StoredRow(1, DescCatalog[1], "it")}, {StoredRow(1, DescCatalog[1], "en")},
     {[StoredRow(1, DescCatalog[1], "it") EXCEPT !.number = N5A1]},
     {StoredRow(1, DescCatalog[1], "en"), StoredRow(2, DescCatalog[1], "it")},
     {StoredRow(1, DescCatalog[1], "it"), StoredRow(2, DescCatalog[2], "it")}}

InitDesc ==
    /\ books = DescCatalog
    /\ descs \in InitDescSets
    /\ last = NoCall
    /\ created = {}
    /\ variant \in Revisions
    /\ fcall = NoFCall
    /\ Idle

InsertOrUpdateDescriptionStep(b, data, reject) ==
    LET r == Reconcile(variant, descs, b.book_id, b.collection_id, b.number,
                       data, reject)
    IN  /\ r.action = "inserted" => Cardinality(descs) < MaxDescs
        /\ descs' = r.descs
        /\ last' = [NoCall EXCEPT !.op = "insert_or_update_description",
                                  !.rev = variant, !.book_id = b.book_id,
                                  !.collection_id = b.collection_id,
                                  !.number = b.number, !.data = data,
                                  !.reject = reject, !.status = r.action]
        /\ UNCHANGED <<books, created, batchVars>>

CallInsertOrUpdateDescription ==
    \E i \in 1..Len(books), data \in FieldMaps :
        \/ InsertOrUpdateDescriptionStep(books[i], data, FALSE)
        \/ /\ Reconcile(variant, descs, books[i].book_id, books[i].collection_id,
                        books[i].number, data, TRUE).action = "raised"
           /\ InsertOrUpdateDescriptionStep(books[i], data, TRUE)

NextDesc == CallInsertOrUpdateDescription

SpecDesc == InitDesc /\ [][NextDesc]_vars

(***************************************************************************)
(* The batch drivers: fast_process.update_db_from_docx ("fast"),           *)
(* mcp_server._update_descriptions_sync ("mcp") and                        *)
(* db_description_update.update_db_from_docx ("dbu").                      *)
(*                                                                         *)
(* A file name is [marker, token, ext]: marker says that the name contains *)
(* "Scheda descrittiva_" token "_VERIFICATA".  A document is the file name *)
(* and what reading it and writing its rows does: readable (Document()     *)
(* and the extraction do not raise), data (the extracted field map),       *)
(* fault ("reject_book": the store raises on the INSERT INTO books;        *)
(* "reject_desc": it raises on the INSERT or UPDATE of the description).   *)
(* books and descs are the tables as the run's connection sees them,       *)
(* committed is what is durable.                                           *)
(***************************************************************************)
TokenChars == DigitChars \cup UpperChars \cup LowerChars \cup {"(", ")"}

FileName(marker, token, ext) == [marker |-> marker, token |-> token, ext |-> ext]

\* re.search(r'Scheda descrittiva_([A-Za-z0-9()]+)_VERIFICATA', filename)
FileNameMatch(name) ==
    /\ name.marker
    /\ name.token # <<>>
    /\ \A i \in 1..Len(name.token) : name.token[i] \in TokenChars

\* a classifier that looks at the first character of whatever stands
\* between the markers
determine_collection_from_filename_any_token(name) ==
    IF ~name.marker \/ name.token = <<>> THEN [id |-> 0, name |-> "None"]
    ELSE IF Head(upper(name.token)) = "5"
    THEN [id |-> CINQUECENTINE_COLLECTION_ID, name |-> "cinquecentine"]
    ELSE IF Head(upper(name.token)) = "4"
    THEN [id |-> INCUNABOLI_COLLECTION_ID, name |-> "incunaboli"]
    ELSE [id |-> 0, name |-> "None"]

\* the collection id (0 for None) and name of a file name
determine_collection_from_filename(name) ==
    IF ~FileNameMatch(name) THEN [id |-> 0, name |-> "None"]
    ELSE IF Head(upper(name.token)) = "5"
    THEN [id |-> CINQUECENTINE_COLLECTION_ID, name |-> "cinquecentine"]
    ELSE IF Head(upper(name.token)) = "4"
    THEN [id |-> INCUNABOLI_COLLECTION_ID, name |-> "incunaboli"]
    ELSE [id |-> 0, name |-> "None"]

Doc(name, readable, data, fault) ==
    [name |-> name, readable |-> readable, data |-> data, fault |-> fault]

AuthorV1 == [k \in {"author"} |-> "v1"]
AuthorBlank == [k \in {"author"} |-> ""]
BlankAuthorTitleV1 == [k \in Cols |-> IF k = "author" THEN "" ELSE "v1"]

Docs ==
    {Doc(FileName(TRUE, N5A01, "docx"), TRUE, AuthorV1, "none"),
     Doc(FileName(TRUE, N5A1, "docx"), TRUE, BlankAuthorTitleV1, "none"),
     Doc(FileName(TRUE, N4B1, "doc"), TRUE, AuthorV1, "none"),
     Doc(FileName(TRUE, N5a01, "docx"), TRUE, AuthorBlank, "none"),
     Doc(FileName(TRUE, N5A01, "docx"), TRUE, EmptyMap, "none"),
     Doc(FileName(TRUE, N5Z99, "docx"), FALSE, EmptyMap, "none"),
     Doc(FileName(TRUE, N5Z99, "docx"), TRUE, AuthorV1, "reject_book"),
     Doc(FileName(TRUE, N5A1, "docx"), TRUE, AuthorV1, "reject_desc"),
     Doc(FileName(TRUE, <<"9", "A", "1">>, "docx"), TRUE, AuthorV1, "none"),
     Doc(FileName(FALSE, <<>>, "docx"), TRUE, AuthorV1, "none"),
     Doc(FileName(TRUE, N5A01, "txt"), TRUE, AuthorV1, "none")}

Folders == UNION {[1..k -> Docs] : k \in 0..MaxDocs}

BatchCatalog ==
    <<[book_id |-> 1, collection_id |-> CINQUECENTINE_COLLECTION_ID,
       number |-> N5A1, author |-> "Unknown"]>>

\* the stores a run may start on: [descTable, booksTable, books, descs]
Store(dt, bt, bks, ds) == [descTable |-> dt, booksTable |-> bt, books |-> bks, descs |-> ds]

InitStores ==
    {Store(TRUE, TRUE, <<>>, {}),
     Store(TRUE, TRUE, BatchCatalog, {}),
     Store(TRUE, TRUE, BatchCatalog, {StoredRow(1, BatchCatalog[1], "it")}),
     Store(FALSE, TRUE, BatchCatalog, {}),
     Store(TRUE, FALSE, <<>>, {})}

InitBatch ==
    /\ \E s \in InitStores :
          /\ descTable = s.descTable /\ booksTable = s.booksTable
          /\ books = s.books /\ descs = s.descs
    /\ committed = [books |-> books, descs |-> descs]
    /\ snap = NoSnap
    /\ variant \in Revisions
    /\ folder \in Folders
    /\ pc = "idle" /\ run = 0 /\ idx = 0
    /\ stats = ZeroStats /\ outcome = "none"
    /\ last = NoCall /\ created = {}
    /\ fcall = NoFCall
    /\ overlap = NoOverlap

\* what the body of the loop leaves behind for one document
Outcome(bks, ds, st, crashed) ==
    [books |-> bks, descs |-> ds, stats |-> st, crashed |-> crashed]

Count(st, counter) == [st EXCEPT ![counter] = @ + 1]

Error(st, i, kind) == [st EXCEPT !.errors = Append(@, <<i, kind>>)]

\* filename.endswith((".docx", ".doc"))
IsWordFile(name) == name.ext \in {"docx", "doc"}

\* data.get('author', 'Unknown')
AuthorOf(data) == IF "author" \in DOMAIN data THEN data["author"] ELSE "Unknown"

\* fast_process.update_db_from_docx, the body of the loop for document i.
\* bt: the books table can be read; when it cannot, the SELECT of
\* find_or_create_book raises outside every try block.
ProcessDocumentFast(bks, ds, st, doc, i, bt) ==
    LET coll == determine_collection_from_filename(doc.name)
        Counted(bks1, st1, d) ==
            Outcome(bks1, d.descs,
                    Count(IF d.action = "updated" THEN Count(st1, "updated")
                          ELSE IF d.action = "inserted" THEN Count(st1, "inserted")
                          ELSE st1,
                          "processed"),
                    FALSE)
        Described(r) ==
            IF r.status = "error" THEN Outcome(bks, ds, Count(st, "not_found"), FALSE)
            ELSE IF r.match = NoBook THEN Outcome(bks, ds, Count(st, "not_found"), FALSE)
            ELSE Counted(r.books,
                         IF r.status = "created" THEN Count(st, "books_created") ELSE st,
                         insert_or_update_description_fast(ds, r.match.book_id, coll.id,
                                                           r.match.number, doc.data,
                                                           doc.fault = "reject_desc"))
    IN  IF ~IsWordFile(doc.name) THEN Outcome(bks, ds, st, FALSE)
        ELSE IF ~FileNameMatch(doc.name) THEN Outcome(bks, ds, st, FALSE)
        ELSE IF coll.id = 0 THEN Outcome(bks, ds, st, FALSE)
        ELSE IF ~doc.readable THEN Outcome(bks, ds, st, FALSE)
        ELSE IF doc.data = EmptyMap THEN Outcome(bks, ds, st, FALSE)
        ELSE IF ~bt THEN Outcome(bks, ds, st, TRUE)
        ELSE Described(find_or_create_book(bks, upper(doc.name.token), coll.id,
                                           AuthorOf(doc.data),
                                           doc.fault = "reject_book"))

\* a tool-server driver that counts a document as processed as the script
\* fast_process does
ProcessDocumentMcp_processed_always(bks, ds, st, doc, i, bt) ==
    ProcessDocumentFast(bks, ds, st, doc, i, bt)

\* a driver that does not count the item it created when the description
\* write raises
ProcessDocumentMcp_item_uncounted(bks, ds, st, doc, i, bt) ==
    LET coll == determine_collection_from_filename(doc.name)
        Counted(bks1, st1, d) ==
            IF d.action = "raised"
            THEN Outcome(bks1, ds, Error(st, i, "database"), FALSE)
            ELSE Outcome(bks1, d.descs,
                         Count(IF d.action = "updated" THEN Count(st1, "updated")
                               ELSE Count(st1, "inserted"),
                               "processed"),
                         FALSE)
        Described(r) ==
            IF r.status = "error" THEN Outcome(bks, ds, Error(st, i, "book"), FALSE)
            ELSE IF r.match = NoBook
            THEN Outcome(bks, ds, Error(Count(st, "not_found"), i, "not_found"), FALSE)
            ELSE Counted(r.books,
                         IF r.status = "created" THEN Count(st, "books_created") ELSE st,
                         insert_or_update_description(ds, r.match.book_id, coll.id,
                                                      r.match.number, doc.data,
                                                      doc.fault = "reject_desc"))
    IN  IF ~IsWordFile(doc.name) THEN Outcome(bks, ds, st, FALSE)
        ELSE IF ~FileNameMatch(doc.name) THEN Outcome(bks, ds, Error(st, i, "parse"), FALSE)
        ELSE IF coll.id = 0 THEN Outcome(bks, ds, Error(st, i, "collection"), FALSE)
        ELSE IF ~doc.readable THEN Outcome(bks, ds, Error(st, i, "read"), FALSE)
        ELSE IF doc.data = EmptyMap THEN Outcome(bks, ds, Error(st, i, "no_data"), FALSE)
        ELSE IF ~bt THEN Outcome(bks, ds, st, TRUE)
        ELSE Described(find_or_create_book(bks, upper(doc.name.token), coll.id,
                                           AuthorOf(doc.data),
                                           doc.fault = "reject_book"))

\* mcp_server._update_descriptions_sync, the body of the loop for document i
ProcessDocumentMcp(bks, ds, st, doc, i, bt) ==
    LET coll == determine_collection_from_filename(doc.name)
        Counted(bks1, st1, d) ==
            IF d.action = "raised"
            THEN Outcome(bks1, ds, Error(st1, i, "database"), FALSE)
            ELSE Outcome(bks1, d.descs,
                         Count(IF d.action = "updated" THEN Count(st1, "updated")
                               ELSE Count(st1, "inserted"),
                               "processed"),
                         FALSE)
        Described(r) ==
            IF r.status = "error" THEN Outcome(bks, ds, Error(st, i, "book"), FALSE)
            ELSE IF r.match = NoBook
            THEN Outcome(bks, ds, Error(Count(st, "not_found"), i, "not_found"), FALSE)
            ELSE Counted(r.books,
                         IF r.status = "created" THEN Count(st, "books_created") ELSE st,
                         insert_or_update_description(ds, r.match.book_id, coll.id,
                                                      r.match.number, doc.data,
                                                      doc.fault = "reject_desc"))
    IN  IF ~IsWordFile(doc.name) THEN Outcome(bks, ds, st, FALSE)
        ELSE IF ~FileNameMatch(doc.name) THEN Outcome(bks, ds, Error(st, i, "parse"), FALSE)
        ELSE IF coll.id = 0 THEN Outcome(bks, ds, Error(st, i, "collection"), FALSE)
        ELSE IF ~doc.readable THEN Outcome(bks, ds, Error(st, i, "read"), FALSE)
        ELSE IF doc.data = EmptyMap THEN Outcome(bks, ds, Error(st, i, "no_data"), FALSE)
        ELSE IF ~bt THEN Outcome(bks, ds, st, TRUE)
        ELSE Described(find_or_create_book(bks, upper(doc.name.token), coll.id,
                                           AuthorOf(doc.data),
                                           doc.fault = "reject_book"))

\* a lookup-only driver that creates the item it does not find
ProcessDocumentDbu_creating(bks, ds, st, doc, i, bt) ==
    ProcessDocumentFast(bks, ds, st, doc, i, bt)

\* db_description_update.update_db_from_docx, the body of the loop for
\* document i: the book is looked up before the document is read, and never
\* created
ProcessDocumentDbu(bks, ds, st, doc, i, bt) ==
    LET coll == determine_collection_from_filename(doc.name)
        Counted(d) ==
            Outcome(bks, d.descs,
                    Count(IF d.action = "raised" THEN st
                          ELSE IF d.action = "updated" THEN Count(st, "updated")
                          ELSE Count(st, "inserted"),
                          "processed"),
                    FALSE)
        Described(m) ==
            IF m = NoBook THEN Outcome(bks, ds, Count(st, "not_found"), FALSE)
            ELSE IF ~doc.readable THEN Outcome(bks, ds, st, FALSE)
            ELSE IF doc.data = EmptyMap THEN Outcome(bks, ds, st, FALSE)
            ELSE Counted(insert_or_update_description(ds, m.book_id, coll.id, m.number,
                                                      doc.data,
                                                      doc.fault = "reject_desc"))
    IN  IF ~IsWordFile(doc.name) THEN Outcome(bks, ds, st, FALSE)
        ELSE IF ~FileNameMatch(doc.name) THEN Outcome(bks, ds, st, FALSE)
        ELSE IF coll.id = 0 THEN Outcome(bks, ds, st, FALSE)
        ELSE IF ~bt THEN Outcome(bks, ds, st, TRUE)
        ELSE Described(find_matching_book(bks, upper(doc.name.token), coll.id))

ProcessDocumentBody(rev, bks, ds, st, doc, i, bt) ==
    IF rev = "fast" THEN ProcessDocumentFast(bks, ds, st, doc, i, bt)
    ELSE IF rev = "mcp" THEN ProcessDocumentMcp(bks, ds, st, doc, i, bt)
    ELSE ProcessDocumentDbu(bks, ds, st, doc, i, bt)

\* a run that goes into the loop without looking for book_descriptions
StartRun_unchecked ==
    /\ pc = "idle" \/ (pc = "done" /\ run < MaxRuns)
    /\ run' = run + 1
    /\ snap' = IF pc = "done" THEN [books |-> books, descs |-> descs, stats |-> stats, taken |-> TRUE]
               ELSE snap
    /\ pc' = "loop" /\ idx' = 0 /\ stats' = ZeroStats /\ outcome' = "none"
    /\ UNCHANGED <<books, descs, committed, variant, descTable, booksTable,
                   folder, apiVars, fcall, overlap>>

\* the start of a run: connect, look for the book_descriptions table, and
\* return when it is missing (mcp_server returns an error dict, the two
\* scripts print a message and return None); else zero the counters.  A
\* second run starts on what the first committed.
StartRun ==
    /\ pc = "idle" \/ (pc = "done" /\ run < MaxRuns)
    /\ run' = run + 1
    /\ snap' = IF pc = "done" THEN [books |-> books, descs |-> descs, stats |-> stats, taken |-> TRUE]
               ELSE snap
    /\ IF descTable
       THEN pc' = "loop" /\ idx' = 0 /\ stats' = ZeroStats /\ outcome' = "none"
       ELSE /\ pc' = "aborted" /\ idx' = 0 /\ stats' = ZeroStats
            /\ outcome' = IF variant = "mcp" THEN "error_dict" ELSE "message"
    /\ UNCHANGED <<books, descs, committed, variant, descTable, booksTable,
                   folder, apiVars, fcall, overlap>>

\* a loop that commits after every document
ProcessDocument_autocommit ==
    /\ pc = "loop" /\ idx < Len(folder)
    /\ \E o \in {ProcessDocumentBody(variant, books, descs, stats,
                                     folder[idx + 1], idx + 1, booksTable)} :
           IF o.crashed
           THEN /\ pc' = "crashed" /\ outcome' = "exception"
                /\ books' = committed.books /\ descs' = committed.descs
                /\ UNCHANGED <<idx, stats, committed>>
           ELSE /\ books' = o.books /\ descs' = o.descs /\ stats' = o.stats
                /\ committed' = [books |-> o.books, descs |-> o.descs]
                /\ idx' = idx + 1
                /\ UNCHANGED <<pc, outcome>>
    /\ UNCHANGED <<snap, run, variant, descTable, booksTable, folder, apiVars, fcall, overlap>>

\* one iteration of the loop over the folder.  An exception that leaves the
\* loop ends the run without commit: the connection's writes are lost.
ProcessDocument ==
    /\ pc = "loop" /\ idx < Len(folder)
    /\ \E o \in {ProcessDocumentBody(variant, books, descs, stats,
                                     folder[idx + 1], idx + 1, booksTable)} :
           IF o.crashed
           THEN /\ pc' = "crashed" /\ outcome' = "exception"
                /\ books' = committed.books /\ descs' = committed.descs
                /\ UNCHANGED <<idx, stats>>
           ELSE /\ books' = o.books /\ descs' = o.descs /\ stats' = o.stats
                /\ idx' = idx + 1
                /\ UNCHANGED <<pc, outcome>>
    /\ UNCHANGED <<committed, snap, run, variant, descTable, booksTable,
                   folder, apiVars, fcall, overlap>>

\* after the last document: conn.commit(), conn.close(), the summary
FinishRun ==
    /\ pc = "loop" /\ idx = Len(folder)
    /\ committed' = [books |-> books, descs |-> descs]
    /\ pc' = "done" /\ outcome' = "summary"
    /\ UNCHANGED <<books, descs, stats, idx, snap, run, variant, descTable,
                   booksTable, folder, apiVars, fcall, overlap>>

NextBatch == StartRun \/ ProcessDocument \/ FinishRun

SpecBatch == InitBatch /\ [][NextBatch]_vars

(***************************************************************************)
(* Two runs of mcp_server._update_descriptions_sync that handle_call_tool  *)
(* gave to worker threads.  Each has its own connection.  books and descs  *)
(* are the database file, what a commit left there; one step is one SQL    *)
(* statement of one connection together with the local work before it.    *)
(* A connection's first INSERT or UPDATE begins its transaction and takes  *)
(* the write lock, which it holds until conn.commit(); what it wrote is    *)
(* overlap.txn, seen by itself only.  A write while the other connection   *)
(* holds the lock waits, and raises when the wait exceeds the timeout.     *)
(***************************************************************************)
Workers == {1, 2}

Other(k) == 3 - k

Worker(f) ==
    [pc |-> "idle", folder |-> f, idx |-> 0, match |-> NoBook,
     status |-> "none", existing |-> 0, stats |-> ZeroStats]

OverlapDocs ==
    {Doc(FileName(TRUE, N5A01, "docx"), TRUE, AuthorV1, "none"),
     Doc(FileName(TRUE, N5A1, "docx"), TRUE, BlankAuthorTitleV1, "none"),
     Doc(FileName(TRUE, N5A01, "docx"), TRUE, EmptyMap, "none")}

OverlapFolders == UNION {[1..k -> OverlapDocs] : k \in 0..MaxOverlapDocs}

InitOverlap ==
    /\ books \in {<<>>, BatchCatalog} /\ descs = {}
    /\ last = NoCall /\ created = {}
    /\ variant = "mcp" /\ fcall = NoFCall
    /\ descTable = TRUE /\ booksTable = TRUE
    /\ folder = <<>> /\ pc = "idle" /\ run = 0 /\ idx = 0
    /\ stats = ZeroStats /\ outcome = "none"
    /\ committed = [books |-> books, descs |-> descs]
    /\ snap = NoSnap
    /\ overlap \in {[NoOverlap EXCEPT !.w = <<Worker(f), Worker(g)>>] :
                       f, g \in OverlapFolders}

\* what the statements of connection k read: its own transaction when it
\* has one, else the database file
View(k) ==
    IF overlap.lock = k THEN overlap.txn ELSE [books |-> books, descs |-> descs]

\* the run of worker k has started and has not returned
Active(k) == overlap.w[k].pc \notin {"idle", "done"}

\* the document worker k is at, its call number and its collection
Document(k) == overlap.w[k].folder[overlap.w[k].idx]
FileNumber(k) == upper(Document(k).name.token)
CollectionId(k) == determine_collection_from_filename(Document(k).name).id

\* the loop goes to the next document, or leaves for conn.commit()
NextDocument(wk) ==
    IF wk.idx < Len(wk.folder)
    THEN [wk EXCEPT !.idx = @ + 1, !.pc = "document"]
    ELSE [wk EXCEPT !.pc = "commit"]

\* the documents the loop leaves before it calls find_or_create_book
SkippedBeforeLookup(doc) ==
    \/ ~IsWordFile(doc.name) \/ ~FileNameMatch(doc.name)
    \/ determine_collection_from_filename(doc.name).id = 0
    \/ ~doc.readable \/ doc.data = EmptyMap

\* a step of worker k that writes nothing to the database
LocalStep(k, wk) ==
    /\ overlap' = [overlap EXCEPT !.w[k] = wk]
    /\ UNCHANGED <<books, descs, apiVars, variant, descTable, booksTable, folder,
                   pc, run, idx, stats, outcome, committed, snap, fcall>>

\* a step of worker k that writes tx in its transaction
WriteStep(k, wk, tx) ==
    /\ overlap.lock \in {0, k}
    /\ overlap' = [overlap EXCEPT !.w[k] = wk, !.lock = k, !.txn = tx]
    /\ UNCHANGED <<books, descs, apiVars, variant, descTable, booksTable, folder,
                   pc, run, idx, stats, outcome, committed, snap, fcall>>

\* run_in_executor(None, _update_descriptions_sync, folder, db): connect,
\* find the book_descriptions table, zero the counters
DispatchRun(k) ==
    /\ overlap.w[k].pc = "idle"
    /\ overlap' = [overlap EXCEPT
                      !.w[k] = NextDocument(overlap.w[k]),
                      !.overlapped = @ \/ Active(Other(k))]
    /\ UNCHANGED <<books, descs, apiVars, variant, descTable, booksTable, folder,
                   pc, run, idx, stats, outcome, committed, snap, fcall>>

\* the loop body up to the first SELECT of find_or_create_book: the exact
\* match
ReadDocument(k) ==
    /\ overlap.w[k].pc = "document"
    /\ LocalStep(k,
          IF SkippedBeforeLookup(Document(k))
          THEN NextDocument(
                 [overlap.w[k] EXCEPT
                    !.stats = ProcessDocumentMcp(View(k).books, View(k).descs, @,
                                                 Document(k), overlap.w[k].idx,
                                                 TRUE).stats])
          ELSE IF ExactRows(View(k).books, FileNumber(k), CollectionId(k)) # {}
          THEN [overlap.w[k] EXCEPT
                  !.pc = "existing", !.status = "found",
                  !.match = RowMatch(View(k).books,
                                     First(ExactRows(View(k).books, FileNumber(k),
                                                     CollectionId(k))))]
          ELSE [overlap.w[k] EXCEPT !.pc = "scan"])

\* a matcher that goes from the exact miss to the INSERT
ScanCollection_none(k) ==
    /\ overlap.w[k].pc = "scan"
    /\ LocalStep(k, [overlap.w[k] EXCEPT !.pc = "create"])

\* the second SELECT of find_or_create_book and the scan of its rows
ScanCollection(k) ==
    /\ overlap.w[k].pc = "scan"
    /\ LocalStep(k,
          IF NormalizedRows(View(k).books, FileNumber(k), CollectionId(k)) # {}
          THEN [overlap.w[k] EXCEPT
                  !.pc = "existing", !.status = "found",
                  !.match = RowMatch(View(k).books,
                                     First(NormalizedRows(View(k).books,
                                                          FileNumber(k),
                                                          CollectionId(k))))]
          ELSE [overlap.w[k] EXCEPT !.pc = "create"])

\* INSERT INTO books, and books_created += 1
InsertBook(k) ==
    /\ overlap.w[k].pc = "create"
    /\ \E row \in {CreatedBook(View(k).books, FileNumber(k), CollectionId(k),
                                AuthorOf(Document(k).data))} :
          WriteStep(k,
                    [overlap.w[k] EXCEPT
                       !.pc = "existing", !.status = "created",
                       !.match = [book_id |-> row.book_id, number |-> row.number],
                       !.stats = Count(@, "books_created")],
                    [View(k) EXCEPT !.books = Append(@, row)])

\* INSERT INTO books raises "database is locked": find_or_create_book
\* returns the error status and the loop records it
InsertBookLocked(k) ==
    /\ overlap.w[k].pc = "create"
    /\ overlap.lock = Other(k)
    /\ LocalStep(k, NextDocument([overlap.w[k] EXCEPT
                                    !.stats = Error(@, overlap.w[k].idx, "book")]))

\* the SELECT of insert_or_update_description
SelectDescription(k) ==
    /\ overlap.w[k].pc = "existing"
    /\ LocalStep(k,
          [overlap.w[k] EXCEPT
             !.pc = "write",
             !.existing = IF ItRows(View(k).descs, overlap.w[k].match.book_id) # {}
                          THEN Existing(View(k).descs,
                                        overlap.w[k].match.book_id).description_id
                          ELSE 0])

\* the counters after insert_or_update_description returned action
AfterDescription(wk, action) ==
    NextDocument([wk EXCEPT
                    !.stats = Count(Count(@, IF action = "updated" THEN "updated"
                                             ELSE "inserted"),
                                    "processed")])

\* the UPDATE or INSERT of insert_or_update_description.  An INSERT for a
\* book that has an Italian row by now breaks UNIQUE(book_id, language) and
\* raises; the loop records the error.
WriteDescription(k) ==
    /\ overlap.w[k].pc = "write"
    /\ IF overlap.w[k].existing # 0
       THEN WriteStep(k, AfterDescription(overlap.w[k], "updated"),
                      [View(k) EXCEPT
                         !.descs = UpdatedRows(@, overlap.w[k].existing,
                                               Document(k).data)])
       ELSE IF ItRows(View(k).descs, overlap.w[k].match.book_id) # {}
       THEN /\ overlap.lock \in {0, k}
            /\ LocalStep(k, NextDocument(
                               [overlap.w[k] EXCEPT
                                  !.stats = Error(@, overlap.w[k].idx, "database")]))
       ELSE WriteStep(k, AfterDescription(overlap.w[k], "inserted"),
                      [View(k) EXCEPT
                         !.descs = @ \cup {InsertedRow(@, overlap.w[k].match.book_id,
                                                       CollectionId(k),
                                                       overlap.w[k].match.number,
                                                       Document(k).data)}])

\* the UPDATE or INSERT raises "database is locked"
WriteDescriptionLocked(k) ==
    /\ overlap.w[k].pc = "write"
    /\ overlap.lock = Other(k)
    /\ LocalStep(k, NextDocument(
                       [overlap.w[k] EXCEPT
                          !.stats = Error(@, overlap.w[k].idx, "database")]))

\* conn.commit(), conn.close() and the return of the statistics
CommitRun(k) ==
    /\ overlap.w[k].pc = "commit"
    /\ books' = View(k).books /\ descs' = View(k).descs
    /\ overlap' = [overlap EXCEPT
                      !.w[k].pc = "done",
                      !.lock = IF @ = k THEN 0 ELSE @]
    /\ UNCHANGED <<apiVars, variant, descTable, booksTable, folder,
                   pc, run, idx, stats, outcome, committed, snap, fcall>>

NextOverlap ==
    \E k \in Workers :
        \/ DispatchRun(k) \/ ReadDocument(k) \/ ScanCollection(k)
        \/ InsertBook(k) \/ InsertBookLocked(k)
        \/ SelectDescription(k)
        \/ WriteDescription(k) \/ WriteDescriptionLocked(k)
        \/ CommitRun(k)

SpecOverlap == InitOverlap /\ [][NextOverlap]_vars

(***************************************************************************)
(* Calls of the pure functions.  The argument is drawn in the initial      *)
(* state; a step applies the function and records argument and result in   *)
(* fcall.  No store and no batch run is involved.                          *)
(***************************************************************************)
NoStore ==
    /\ books = <<>> /\ descs = {}
    /\ last = NoCall /\ created = {}
    /\ variant = "none"
    /\ Idle

Input(x) == [fn |-> "input", arg |-> x, ret |-> <<>>]

FCall(fn, arg, ret) ==
    /\ fcall' = [fn |-> fn, arg |-> arg, ret |-> ret]
    /\ UNCHANGED <<books, descs, apiVars, variant, descTable, booksTable, folder,
                   pc, run, idx, stats, outcome, committed, snap, overlap>>

\* the characters of the call numbers given to the normalizer
NumberChars == {"0", "1", "5", "A", "a", " "}

\* the argument of normalize_book_number: a string, or None
NumberInputs == UNION {[1..k -> NumberChars] : k \in 0..MaxLen} \cup {None}

InitNorm == NoStore /\ fcall \in {Input(x) : x \in NumberInputs}

\* normalize_book_number(number)
CallNormalizeBookNumber ==
    /\ fcall.fn = "input"
    /\ FCall("normalize_book_number", fcall.arg, normalize_book_number(fcall.arg))

\* normalize_book_number applied to the string an earlier call returned
CallNormalizeBookNumberAgain ==
    /\ fcall.fn = "normalize_book_number"
    /\ FCall("normalize_book_number", fcall.ret, normalize_book_number(fcall.ret))

NextNorm == CallNormalizeBookNumber \/ CallNormalizeBookNumberAgain

SpecNorm == InitNorm /\ [][NextNorm]_vars

\* file_number = match.group(1).upper() of the drivers, None without match
FileNumberOf(name) == IF FileNameMatch(name) THEN upper(name.token) ELSE None

\* the characters that stand between the markers of a file name
NameChars == {"5", "4", "1", "A", "a", "-"}

\* file names: with or without `Scheda descrittiva_..._VERIFICATA`, what
\* stands between the markers, and the extension
FileNames ==
    {FileName(m, t, e) :
        m \in BOOLEAN,
        t \in UNION {[1..k -> NameChars] : k \in 0..MaxToken},
        e \in {"docx", "doc", "txt"}}

InitClassify == NoStore /\ fcall \in {Input(x) : x \in FileNames}

\* determine_collection_from_filename(filename), with the call number the
\* drivers take from the same file name
CallDetermineCollectionFromFilename ==
    /\ fcall.fn = "input"
    /\ FCall("determine_collection_from_filename", fcall.arg,
             [collection |-> determine_collection_from_filename(fcall.arg),
              file_number |-> FileNumberOf(fcall.arg)])

NextClassify == CallDetermineCollectionFromFilename

SpecClassify == InitClassify /\ [][NextClassify]_vars

(***************************************************************************)
(* The text assembler.  A text is a sequence of atoms: one-character       *)
(* strings, the opening tag of an anchor, the closing tag "</a>", and the  *)
(* literal text "<a href=" typed into a document.  A run is its text,      *)
(* whether its parent element is a hyperlink, and the relationship id of   *)
(* that element ("none" when it has no r:id attribute).  A paragraph is    *)
(* the sequence paragraph.runs; paragraph.text is the concatenation of the *)
(* texts of its runs, and the w:hyperlink elements of its XML are the      *)
(* hyperlinked runs, one element per run.                                  *)
(***************************************************************************)
\* paragraph.part.rels: relationship id -> target_ref
rels == [rId1 |-> "u"]

\* f'<a href="{url}" target="_blank">', its double quotes written as single
OpenTag(url) == "<a href='" \o url \o "' target='_blank'>"

CloseTag == "</a>"

\* '<a href=' in s
HasAnchorMarkup(s) ==
    \E i \in 1..Len(s) :
        s[i] = "<a href=" \/ s[i] \in {OpenTag(rels[r]) : r \in DOMAIN rels}

\* ''.join(parts)
RECURSIVE Join(_)
Join(parts) == IF parts = <<>> THEN <<>> ELSE Head(parts) \o Join(Tail(parts))

Run(text, hyperlink, rel_id) ==
    [text |-> text, hyperlink |-> hyperlink, rel_id |-> rel_id]

\* paragraph.text
ParagraphText(paragraph) ==
    Join([i \in 1..Len(paragraph) |-> paragraph[i].text])

\* the url of the hyperlink element of a run, None when it has no r:id or
\* the id is not among the relationships
HyperlinkUrl(r) ==
    IF r.rel_id # "none" /\ r.rel_id \in DOMAIN rels THEN rels[r.rel_id]
    ELSE "None"

\* what one run appends to parts
RunPart(r) ==
    IF r.hyperlink
    THEN IF HyperlinkUrl(r) # "None" /\ strip(r.text) # <<>>
         THEN <<OpenTag(HyperlinkUrl(r))>> \o r.text \o <<CloseTag>>
         ELSE r.text
    ELSE r.text

\* the loop over paragraph.runs and ''.join(parts)
JoinedRuns(paragraph) ==
    Join([i \in 1..Len(paragraph) |-> RunPart(paragraph[i])])

\* extract_hyperlinks_from_paragraph of mcp_server and
\* db_description_update
extract_hyperlinks_from_paragraph(paragraph) ==
    IF ~HasAnchorMarkup(JoinedRuns(paragraph))
    THEN strip(ParagraphText(paragraph))
    ELSE JoinedRuns(paragraph)

\* re.findall of the w:hyperlink elements that carry an r:id, in document
\* order
RECURSIVE HyperlinkMatches(_)
HyperlinkMatches(paragraph) ==
    IF paragraph = <<>> THEN <<>>
    ELSE (IF Head(paragraph).hyperlink /\ Head(paragraph).rel_id # "none"
          THEN <<Head(paragraph)>> ELSE <<>>)
         \o HyperlinkMatches(Tail(paragraph))

\* the positions (0-based) from last_pos on at which link_text stands in
\* plain_text
Occurrences(plain_text, link_text, last_pos) ==
    {pos \in last_pos..(Len(plain_text) - Len(link_text)) :
        SubSeq(plain_text, pos + 1, pos + Len(link_text)) = link_text}

\* plain_text.find(link_text, last_pos)
Find(plain_text, link_text, last_pos) ==
    CHOOSE pos \in Occurrences(plain_text, link_text, last_pos) :
        \A q \in Occurrences(plain_text, link_text, last_pos) : pos <= q

\* the loop over hyperlink_matches from the k-th on, and the remaining
\* text, of the second method of fast_process
RECURSIVE LinksInPlainText(_, _, _, _, _)
LinksInPlainText(matches, k, plain_text, last_pos, result_parts) ==
    IF k > Len(matches)
    THEN result_parts \o SubSeq(plain_text, last_pos + 1, Len(plain_text))
    ELSE IF /\ matches[k].rel_id \in DOMAIN rels
            /\ Occurrences(plain_text, matches[k].text, last_pos) # {}
    THEN LinksInPlainText(
             matches, k + 1, plain_text,
             Find(plain_text, matches[k].text, last_pos) + Len(matches[k].text),
             result_parts
               \o SubSeq(plain_text, last_pos + 1,
                         Find(plain_text, matches[k].text, last_pos))
               \o <<OpenTag(rels[matches[k].rel_id])>> \o matches[k].text
               \o <<CloseTag>>)
    ELSE LinksInPlainText(matches, k + 1, plain_text, last_pos, result_parts)

\* joined after the second method
JoinedFast(paragraph) ==
    IF ~HasAnchorMarkup(JoinedRuns(paragraph))
       /\ HyperlinkMatches(paragraph) # <<>>
    THEN LinksInPlainText(HyperlinkMatches(paragraph), 1,
                          ParagraphText(paragraph), 0, <<>>)
    ELSE JoinedRuns(paragraph)

\* extract_hyperlinks_from_paragraph of fast_process
extract_hyperlinks_from_paragraph_fast(paragraph) ==
    IF ~HasAnchorMarkup(JoinedFast(paragraph))
    THEN strip(ParagraphText(paragraph))
    ELSE JoinedFast(paragraph)

Assemble(rev, paragraph) ==
    IF rev = "fast" THEN extract_hyperlinks_from_paragraph_fast(paragraph)
    ELSE extract_hyperlinks_from_paragraph(paragraph)

\* the texts of the runs given to the assembler
RunTexts == {<<>>, <<" ">>, <<"x">>, <<" ", "x">>, <<"<a href=">>}

Runs ==
    {Run(t, FALSE, "none") : t \in RunTexts}
    \cup {Run(t, TRUE, r) : t \in RunTexts, r \in {"none", "rId1", "rId9"}}

Paragraphs == UNION {[1..k -> Runs] : k \in 0..MaxParRuns}

InitAssemble ==
    /\ NoStore
    /\ fcall \in {Input([rev |-> r, paragraph |-> p]) :
                     r \in Revisions, p \in Paragraphs}

\* extract_hyperlinks_from_paragraph(paragraph)
CallExtractHyperlinksFromParagraph ==
    /\ fcall.fn = "input"
    /\ FCall("extract_hyperlinks_from_paragraph", fcall.arg,
             Assemble(fcall.arg.rev, fcall.arg.paragraph))

NextAssemble == CallExtractHyperlinksFromParagraph

SpecAssemble == InitAssemble /\ [][NextAssemble]_vars

(***************************************************************************)
(* The field extraction.  The texts are sequences of atoms as above; the   *)
(* regular expression of extract_data_from_docx is                         *)
(*   key ":" \s* (.+?) (?= \n [A-Z] [a-z ]+? ":" | \Z )                    *)
(* under DOTALL and IGNORECASE, searched from the left.                    *)
(***************************************************************************)
\* the letters of the texts given to the extraction
TextLetters == {"A", "C", "D", "J", "N", "T",
                "a", "c", "d", "e", "i", "l", "o", "r", "t", "u", "x"}

\* a letter without its case (re.IGNORECASE)
Fold(c) ==
    CASE c = "A" -> "a" [] c = "C" -> "c" [] c = "D" -> "d"
      [] c = "J" -> "j" [] c = "N" -> "n" [] c = "T" -> "t"
      [] OTHER -> c

Autore == <<"A", "u", "t", "o", "r", "e">>
Titolo == <<"T", "i", "t", "o", "l", "o">>

\* FIELD_MAP: label -> column, with the fallback entry of fast_process
FIELD_MAP ==
    {[key |-> Autore, db_col |-> "author"],
     [key |-> Titolo, db_col |-> "title"],
     [key |-> <<>>, db_col |-> "None"]}

\* re.escape(key) and the colon stand at text[i..]
KeyAt(text, key, i) ==
    /\ i + Len(key) <= Len(text)
    /\ \A k \in 1..Len(key) : Fold(text[i + k - 1]) = Fold(key[k])
    /\ text[i + Len(key)] = ":"

\* the lookahead \n[A-Z][a-z ]+?: after the first e atoms of text
LabelAhead(text, e) ==
    /\ e + 4 <= Len(text)
    /\ text[e + 1] = "\n"
    /\ text[e + 2] \in TextLetters
    /\ \E m \in 1..(Len(text) - e - 3) :
          /\ \A k \in 1..m : text[e + 2 + k] \in TextLetters \cup {" "}
          /\ text[e + 3 + m] = ":"

\* the end of the lazy group (.+?) that starts at text[g]
GroupEnd(text, g) ==
    CHOOSE e \in g..Len(text) :
        /\ e = Len(text) \/ LabelAhead(text, e)
        /\ \A d \in g..(e - 1) : ~LabelAhead(text, d)

\* the match of the expression with the key at text[i..]: \s* takes the
\* whole run of whitespace after the colon when a character follows it,
\* and gives its last character to the group when the text ends with it
MatchAt(text, key, i) ==
    LET c == i + Len(key)
        w == SpanLen(SubSeq(text, c + 1, Len(text)), SpaceChars)
    IN  IF ~KeyAt(text, key, i) THEN [ok |-> FALSE, group |-> <<>>]
        ELSE IF c + w < Len(text)
        THEN [ok |-> TRUE,
              group |-> SubSeq(text, c + w + 1, GroupEnd(text, c + w + 1))]
        ELSE IF w >= 1 THEN [ok |-> TRUE, group |-> <<text[Len(text)]>>]
        ELSE [ok |-> FALSE, group |-> <<>>]

\* re.search: the match at the leftmost position that has one
Search(text, key) ==
    LET starts == {i \in 1..Len(text) : MatchAt(text, key, i).ok}
    IN  IF starts = {} THEN [ok |-> FALSE, group |-> <<>>]
        ELSE MatchAt(text, key, CHOOSE i \in starts : \A j \in starts : i <= j)

\* re.sub(r'\s+', ' ', value)
RECURSIVE CollapseSpaces(_)
CollapseSpaces(value) ==
    IF value = <<>> THEN <<>>
    ELSE IF Head(value) \in SpaceChars
    THEN <<" ">> \o CollapseSpaces(
                       SubSeq(value, SpanLen(value, SpaceChars) + 1, Len(value)))
    ELSE <<Head(value)>> \o CollapseSpaces(Tail(value))

\* re.sub(r'<a\s+href="([^"]*)"[^>]*>\s*</a>', '', value)
RECURSIVE RemoveEmptyLinks(_)
RemoveEmptyLinks(value) ==
    IF value = <<>> THEN <<>>
    ELSE IF /\ Head(value) \in {OpenTag(rels[r]) : r \in DOMAIN rels}
            /\ SpanLen(Tail(value), SpaceChars) + 2 <= Len(value)
            /\ value[SpanLen(Tail(value), SpaceChars) + 2] = CloseTag
    THEN RemoveEmptyLinks(
             SubSeq(value, SpanLen(Tail(value), SpaceChars) + 3, Len(value)))
    ELSE <<Head(value)>> \o RemoveEmptyLinks(Tail(value))

\* the value stored for a match
CleanValue(group) == RemoveEmptyLinks(CollapseSpaces(strip(group)))

\* the paragraphs with paragraph.text.strip()
RECURSIVE VisibleParagraphs(_)
VisibleParagraphs(doc) ==
    IF doc = <<>> THEN <<>>
    ELSE (IF strip(ParagraphText(Head(doc))) # <<>> THEN <<Head(doc)>> ELSE <<>>)
         \o VisibleParagraphs(Tail(doc))

\* full_text_with_links: every assembled paragraph followed by "\n"
FullTextWithLinks(rev, doc) ==
    Join([i \in 1..Len(VisibleParagraphs(doc)) |->
            Assemble(rev, VisibleParagraphs(doc)[i]) \o <<"\n">>])

\* plain_text: "\n".join of the stripped paragraph texts
PlainText(doc) ==
    Join([i \in 1..Len(VisibleParagraphs(doc)) |->
            (IF i > 1 THEN <<"\n">> ELSE <<>>)
            \o strip(ParagraphText(VisibleParagraphs(doc)[i]))])

\* a match that is looked for in the plain text first
FieldMatch_plain_first(key, full_text_with_links, plain_text) ==
    IF Search(plain_text, key).ok
    THEN Search(plain_text, key)
    ELSE Search(full_text_with_links, key)

\* the match of one label: in the text with links, else in the plain text
FieldMatch(key, full_text_with_links, plain_text) ==
    IF Search(full_text_with_links, key).ok
    THEN Search(full_text_with_links, key)
    ELSE Search(plain_text, key)

\* an extraction that gives every column of the vocabulary a value
extract_data_from_docx_all_keys(rev, doc) ==
    [c \in {f.db_col : f \in {g \in FIELD_MAP : g.db_col # "None"}} |->
        CleanValue(FieldMatch((CHOOSE f \in FIELD_MAP : f.db_col = c).key,
                              FullTextWithLinks(rev, doc),
                              PlainText(doc)).group)]

\* extract_data_from_docx: the field map of a document
extract_data_from_docx(rev, doc) ==
    [c \in {f.db_col :
              f \in {g \in FIELD_MAP :
                        /\ g.db_col # "None"
                        /\ FieldMatch(g.key, FullTextWithLinks(rev, doc),
                                      PlainText(doc)).ok}} |->
        CleanValue(FieldMatch((CHOOSE f \in FIELD_MAP : f.db_col = c).key,
                              FullTextWithLinks(rev, doc),
                              PlainText(doc)).group)]

\* the paragraphs of the documents given to the extraction
PlainRun(text) == Run(text, FALSE, "")
ExtractParagraphs ==
    {<<PlainRun(Autore \o <<":", " ", "J", "d">>)>>,
     <<PlainRun(Autore \o <<":">>)>>,
     <<PlainRun(Titolo \o <<":", " ", "D", "c">>)>>,
     <<PlainRun(Titolo \o <<":", " ">>), Run(<<"D", "c">>, TRUE, "rId1")>>,
     <<PlainRun(Titolo \o <<":", " ">>), Run(<<>>, TRUE, "rId1")>>,
     <<Run(Autore, TRUE, "rId1"), PlainRun(<<":", " ", "J", "d">>)>>,
     <<PlainRun(<<"N", "o", "t", "e", ":", " ", "x">>)>>,
     <<PlainRun(<<"a", "u", "t", "o", "r", "e", ":", " ", "x">>)>>,
     <<PlainRun(<<"J", "d">>)>>,
     <<PlainRun(<<" ">>)>>}

ExtractDocs == UNION {[1..n -> ExtractParagraphs] : n \in 0..MaxParagraphs}

InitExtract ==
    /\ NoStore
    /\ fcall \in {Input([rev |-> r, doc |-> d]) :
                     r \in Revisions, d \in ExtractDocs}

\* data = extract_data_from_docx(docx_path)
CallExtractDataFromDocx ==
    /\ fcall.fn = "input"
    /\ FCall("extract_data_from_docx", fcall.arg,
             extract_data_from_docx(fcall.arg.rev, fcall.arg.doc))

NextExtract == CallExtractDataFromDocx

SpecExtract == InitExtract /\ [][NextExtract]_vars

(***************************************************************************)
(* Properties of the matcher (SpecMatch).                                  *)
(***************************************************************************)
MatcherOps == {"find_or_create_book", "find_matching_book"}

BookIds(bks) == {bks[i].book_id : i \in 1..Len(bks)}

\* no two rows of one collection have the same normalized call number
NormUnique(bks) ==
    \A i, j \in 1..Len(bks) :
        (/\ i # j
         /\ bks[i].collection_id = bks[j].collection_id
         /\ normalize_book_number(bks[i].number)
              = normalize_book_number(bks[j].number)) => FALSE

\* no row of the collection matches the call number, exactly or normalized
Unmatched(bks, n, c) == ExactRows(bks, n, c) = {} /\ NormalizedRows(bks, n, c) = {}

\* C2: every find_or_create_book call keeps the catalog free of two items
\* of one collection with the same normalized call number; a call whose
\* number equals, after normalization, the number of an item created
\* earlier finds that item and creates nothing.
C2_NormalizedUniquePreserved ==
    [][NormUnique(books) =>
         /\ NormUnique(books')
         /\ \A e \in created :
               (/\ last'.op = "find_or_create_book"
                /\ last'.collection_id = e.collection_id
                /\ normalize_book_number(last'.number)
                     = normalize_book_number(e.number))
               => /\ last'.status = "found"
                  /\ last'.match.book_id = e.book_id
                  /\ books' = books]_vars

\* C2 witness: an item was created for one spelling, and a later call with
\* another spelling of the same number found it
C2_Witness ==
    /\ NormUnique(books)
    /\ last.op = "find_or_create_book"
    /\ last.status = "found"
    /\ \E e \in created :
          /\ e.book_id = last.match.book_id
          /\ e.number # last.number
          /\ upper(e.number) # upper(last.number)

\* the result of a find_or_create_book step on an unmatched number whose
\* INSERT the store accepts: one new row, its id returned as created
CreatedOne ==
    /\ last'.status = "created"
    /\ Len(books') = Len(books) + 1
    /\ SubSeq(books', 1, Len(books)) = books
    /\ last'.match.book_id \notin BookIds(books)
    /\ books'[Len(books')].book_id = last'.match.book_id

\* every later call with the number and collection of a created item finds it
FoundAgain ==
    \A e \in created :
        (last'.collection_id = e.collection_id /\ last'.number = e.number)
        => /\ last'.status = "found"
           /\ last'.match.book_id = e.book_id
           /\ books' = books

\* C3 as stated: with creation enabled, find_or_create_book on a number that
\* matches no item inserts exactly one item and returns its new id with
\* status created; every later call with the same number and collection
\* returns the same id with status found and inserts nothing.
C3_Original ==
    [][last'.op = "find_or_create_book" =>
         /\ Unmatched(books, last'.number, last'.collection_id) => CreatedOne
         /\ FoundAgain]_vars

\* C3 amended: on an unmatched number find_or_create_book inserts exactly one
\* item and returns its new id with status created when the store accepts
\* the INSERT, and inserts nothing and returns no item with an error status
\* when the INSERT raises; every later call with the number and collection
\* of a created item returns that id with status found and inserts nothing.
C3_CreatedUnlessRejected ==
    [][last'.op = "find_or_create_book" =>
         /\ (Unmatched(books, last'.number, last'.collection_id) /\ ~last'.reject)
               => CreatedOne
         /\ (Unmatched(books, last'.number, last'.collection_id) /\ last'.reject)
               => (last'.status = "error" /\ last'.match = NoBook /\ books' = books)
         /\ FoundAgain]_vars

\* C3 witness: a call found the item that an earlier call with the same
\* number and collection created
C3_Witness ==
    /\ last.op = "find_or_create_book"
    /\ last.status = "found"
    /\ \E e \in created :
          /\ e.number = last.number
          /\ e.collection_id = last.collection_id
          /\ e.book_id = last.match.book_id

\* C6: when an item of the collection equals the input after uppercasing,
\* the matcher returns such an item, also when another item that matches
\* only after normalization is listed before it.
C6_ExactWins ==
    (last.op \in MatcherOps
     /\ ExactRows(books, last.number, last.collection_id) # {})
    => \E i \in ExactRows(books, last.number, last.collection_id) :
          books[i].book_id = last.match.book_id

\* C6 witness: the returned item is exactly equal and is listed after an
\* item of the collection that is equal only after normalization
C6_Witness ==
    /\ last.op \in MatcherOps
    /\ last.status = "found"
    /\ \E i \in ExactRows(books, last.number, last.collection_id) :
          /\ books[i].book_id = last.match.book_id
          /\ \E j \in NormalizedRows(books, last.number, last.collection_id) :
                j < i /\ j \notin ExactRows(books, last.number, last.collection_id)

\* C7: a found item is an item of the requested collection whose normalized
\* number equals the normalized input, and the matcher returns found
\* whenever the collection has such an item.
C7_FoundIffNormalizedMatch ==
    [][last'.op \in MatcherOps =>
         /\ last'.status = "found" =>
               \E i \in 1..Len(books) :
                   /\ books[i].book_id = last'.match.book_id
                   /\ books[i].number = last'.match.number
                   /\ books[i].collection_id = last'.collection_id
                   /\ normalize_book_number(books[i].number)
                        = normalize_book_number(last'.number)
         /\ (\E i \in 1..Len(books) :
                /\ books[i].collection_id = last'.collection_id
                /\ normalize_book_number(books[i].number)
                     = normalize_book_number(last'.number))
               => last'.status = "found"]_vars

\* C7 witness: 5A01 found the stored 5A1 although the other collection
\* lists an item with an equal normalized number first
C7_Witness ==
    /\ last.op \in MatcherOps
    /\ last.status = "found"
    /\ last.number = N5A01
    /\ last.match.number = N5A1
    /\ \E i, j \in 1..Len(books) :
          /\ i < j
          /\ books[i].collection_id # last.collection_id
          /\ books[j].book_id = last.match.book_id

\* the author stored for the author argument a: a, or Unknown when a is
\* absent or empty
DefaultedAuthor(a) == IF a = "None" \/ a = "" THEN "Unknown" ELSE a

\* C23: no call of the matcher deletes or changes an item.  A call that
\* returns found leaves books as it was; a call that returns created
\* appends one item with the requested collection, the call number as it
\* was supplied and the given author (Unknown when absent or empty), and
\* leaves every other item as it was.
C23_MatcherOnlyAppends ==
    [][last'.op \in {"find_or_create_book", "find_matching_book"} =>
         /\ Len(books') >= Len(books)
         /\ SubSeq(books', 1, Len(books)) = books
         /\ last'.status = "found" => books' = books
         /\ last'.status = "created" =>
               /\ Len(books') = Len(books) + 1
               /\ books'[Len(books')].collection_id = last'.collection_id
               /\ books'[Len(books')].number = last'.number
               /\ books'[Len(books')].author = DefaultedAuthor(last'.author)
               /\ \A i \in 1..Len(books) :
                     books'[Len(books')].book_id # books[i].book_id]_vars

\* C23 witness: a call with a call number that is not in normal form and an
\* empty author created an item beside an existing one
C23_Witness ==
    /\ last.op = "find_or_create_book" /\ last.status = "created"
    /\ last.number = N5a1 /\ last.author = ""
    /\ Len(books) >= 2
    /\ books[Len(books)].number = N5a1
    /\ books[Len(books)].author = "Unknown"

(***************************************************************************)
(* Properties of the reconciler (SpecDesc).                                *)
(***************************************************************************)
\* the last step was a call of insert_or_update_description that returned
Returned(c) == c.op = "insert_or_update_description" /\ c.status # "raised"

\* the columns an update by revision rev sets for the field map data
ColumnsSet(rev, data) == IF rev = "fast" THEN Truthy(data) ELSE DOMAIN data

\* C1: the store holds at most one description row per (book_id, language)
\* after any sequence of insert_or_update_description calls.
C1_OneDescriptionPerItemLanguage ==
    \A d, e \in descs :
        (d.book_id = e.book_id /\ d.language = e.language) => d = e

\* C1 witness: a call updated the Italian row of a book that also has a row
\* in another language, and the book still has one Italian row
C1_Witness ==
    /\ last.op = "insert_or_update_description"
    /\ last.status = "updated"
    /\ Cardinality(ItRows(descs, last.book_id)) = 1
    /\ \E d \in descs : d.book_id = last.book_id /\ d.language # "it"

\* C4: a call that returns, returns inserted exactly when the book had no
\* Italian row, and updated or no_changes when it had one; no step takes a
\* description from present to absent.
C4_InsertedExactlyWhenAbsent ==
    [][/\ Returned(last') =>
            /\ last'.status = "inserted" <=> ItRows(descs, last'.book_id) = {}
            /\ ItRows(descs, last'.book_id) # {}
                  => last'.status \in {"updated", "no_changes"}
       /\ \A d \in descs :
             \E e \in descs' : e.book_id = d.book_id /\ e.language = d.language]_vars

\* C8: every call that returns, returns inserted, updated or no_changes;
\* with an existing row it returns updated when at least one column was set
\* and no_changes otherwise.
C8_ActionInsertedUpdatedNoChanges ==
    [][Returned(last') =>
         /\ last'.status \in {"inserted", "updated", "no_changes"}
         /\ ItRows(descs, last'.book_id) # {} =>
               last'.status = (IF ColumnsSet(last'.rev, last'.data) # {}
                               THEN "updated" ELSE "no_changes")]_vars

\* the identity columns of a description row
Identity(d) == <<d.book_id, d.collection_id, d.number, d.language>>

\* C20: a call for a book that already has an Italian description sets
\* only columns whose keys are in the field map, each to the value the map
\* gives it: every other field column of every row keeps its value, no row
\* is added or removed, and book_id, collection_id, number and language of
\* every row stay as they were.
C20_UpdateSetsOnlyMappedColumns ==
    [][(Returned(last') /\ ItRows(descs, last'.book_id) # {}) =>
         /\ {d.description_id : d \in descs'} = {d.description_id : d \in descs}
         /\ \A d \in descs : \A e \in descs' :
               e.description_id = d.description_id =>
                  /\ Identity(e) = Identity(d)
                  /\ \A c \in Cols :
                        e.f[c] # d.f[c] =>
                           /\ c \in DOMAIN last'.data
                           /\ e.f[c] = last'.data[c]
                           /\ d.book_id = last'.book_id]_vars

\* C20 witness: an update with a field map that has the title alone set the
\* title of a row and left its author, and the row's number, which is
\* written otherwise than the number of the call, as they were
C20_Witness ==
    /\ last.op = "insert_or_update_description"
    /\ last.status = "updated"
    /\ DOMAIN last.data = {"title"}
    /\ \E d \in descs :
          /\ d.book_id = last.book_id /\ d.language = "it"
          /\ d.f["title"] = "v1" /\ d.f["author"] = "v0"
          /\ d.number # last.number

\* C21: a call for a book without an Italian description that returns,
\* returns inserted and adds one row: its book_id, collection_id and number
\* are the arguments, its language is it, every column with a key in the
\* field map holds the value of the map and every other column is null.
C21_InsertedRowHoldsFieldMap ==
    [][(Returned(last') /\ ItRows(descs, last'.book_id) = {}) =>
         /\ last'.status = "inserted"
         /\ \E e \in descs' :
               /\ e \notin descs /\ descs' = descs \cup {e}
               /\ Identity(e) = <<last'.book_id, last'.collection_id,
                                  last'.number, "it">>
               /\ \A c \in Cols :
                     e.f[c] = (IF c \in DOMAIN last'.data
                               THEN last'.data[c] ELSE Null)]_vars

\* C22: a call of the truthy-only reconciler (fast_process) for a book
\* that has an Italian description leaves every column unchanged whose key
\* has an empty value in the field map; when every value of the map is
\* empty it writes nothing and returns no_changes.
C22_EmptyValueNeverOverwrites ==
    [][(/\ Returned(last') /\ last'.rev = "fast"
        /\ ItRows(descs, last'.book_id) # {}) =>
         /\ \A d \in descs : \A e \in descs' :
               e.description_id = d.description_id =>
                  \A c \in DOMAIN last'.data :
                     last'.data[c] = "" => e.f[c] = d.f[c]
         /\ (\A c \in DOMAIN last'.data : last'.data[c] = "") =>
               (descs' = descs /\ last'.status = "no_changes")]_vars

\* C22 witness: an update by fast_process with an empty author and a title
\* set the title and left the stored author
C22_Witness ==
    /\ last.op = "insert_or_update_description"
    /\ last.rev = "fast" /\ last.status = "updated"
    /\ DOMAIN last.data = Cols
    /\ last.data["author"] = "" /\ last.data["title"] = "v1"
    /\ \E d \in ItRows(descs, last.book_id) :
          d.f["author"] = "v0" /\ d.f["title"] = "v1"

\* the field map has a key, and every value of it is a non-empty string
AllValuesSet(data) == DOMAIN data # {} /\ \A c \in DOMAIN data : data[c] # ""

\* C29: for a call with a non-empty field map without empty values, on any
\* store, with or without a description of the book, the always-overwrite
\* reconciler and the truthy-only reconciler return the same action and
\* leave the same rows.
C29_RevisionsAgreeOnSetValues ==
    [][(last'.op = "insert_or_update_description" /\ AllValuesSet(last'.data)) =>
         /\ Reconcile("fast", descs, last'.book_id, last'.collection_id,
                      last'.number, last'.data, last'.reject)
              = Reconcile("dbu", descs, last'.book_id, last'.collection_id,
                          last'.number, last'.data, last'.reject)
         /\ last'.status = Reconcile("mcp", descs, last'.book_id,
                                     last'.collection_id, last'.number,
                                     last'.data, last'.reject).action
         /\ descs' = Reconcile("mcp", descs, last'.book_id,
                               last'.collection_id, last'.number,
                               last'.data, last'.reject).descs]_vars

\* C29 witness: the truthy-only reconciler updated an existing row with a
\* field map that gives both columns a value
C29_Witness ==
    /\ last.op = "insert_or_update_description"
    /\ last.rev = "fast" /\ last.status = "updated"
    /\ DOMAIN last.data = Cols /\ AllValuesSet(last.data)
    /\ \E d \in ItRows(descs, last.book_id) :
          \A c \in Cols : d.f[c] = last.data[c]

(***************************************************************************)
(* Properties of the batch drivers (SpecBatch).                            *)
(***************************************************************************)
\* the second run over the folder ended: it created no item, inserted no
\* description and left both tables as the first run left them
SecondRunNoOp ==
    (run = 2 /\ pc = "done") =>
        /\ stats.books_created = 0
        /\ stats.inserted = 0
        /\ books = snap.books
        /\ descs = snap.descs

\* the step is the loop body of a creating driver, on a readable catalog,
\* for a classified document whose call number matches no item of its
\* collection
StepOnUnmatchedDocument ==
    /\ pc = "loop" /\ idx' = idx + 1
    /\ variant \in {"fast", "mcp"}
    /\ booksTable
    /\ IsWordFile(folder[idx'].name)
    /\ determine_collection_from_filename(folder[idx'].name).id # 0
    /\ Unmatched(books, upper(folder[idx'].name.token),
                 determine_collection_from_filename(folder[idx'].name).id)

\* the step appended the item of the document to books
ItemCreated ==
    /\ Len(books') = Len(books) + 1
    /\ SubSeq(books', 1, Len(books)) = books
    /\ books'[Len(books')].number = upper(folder[idx'].name.token)
    /\ books'[Len(books')].collection_id
         = determine_collection_from_filename(folder[idx'].name).id
    /\ stats'.books_created = stats.books_created + 1

C9_NoDocumentStopsTheRun ==
    (descTable /\ run >= 1) =>
        /\ pc \in {"loop", "done"}
        /\ pc = "done" => (idx = Len(folder)
                           /\ committed = [books |-> books, descs |-> descs])

\* C10: without the descriptions table a run visits no document, writes
\* nothing and returns an error value or message instead of raising.
C10_MissingTableAborts ==
    [][~descTable =>
         /\ pc' = "aborted"
         /\ outcome' \in {"error_dict", "message"}
         /\ idx' = 0 /\ stats' = ZeroStats
         /\ books' = books /\ descs' = descs /\ committed' = committed]_vars

\* C10 witness: a run on a folder with a document it would have processed
\* ended at the table check
C10_Witness ==
    /\ ~descTable
    /\ pc = "aborted"
    /\ \E i \in 1..Len(folder) :
          /\ IsWordFile(folder[i].name)
          /\ determine_collection_from_filename(folder[i].name).id # 0
          /\ folder[i].readable /\ folder[i].data # EmptyMap

\* every row of the tables before the step is a row after it: the items in
\* their order, each description under its id
RowsKept ==
    /\ Len(books') >= Len(books)
    /\ \A i \in 1..Len(books) : books'[i] = books[i]
    /\ \A d \in descs : \E e \in descs' : e.description_id = d.description_id

\* the document of the step failed: it could not be read, or the store
\* raised on its item or on its description
DocumentFailed ==
    /\ pc = "loop" /\ idx' = idx + 1
    /\ \/ ~folder[idx'].readable
       \/ stats'.not_found > stats.not_found
       \/ Len(stats'.errors) > Len(stats.errors)
       \/ /\ folder[idx'].fault = "reject_desc"
          /\ stats'.processed > stats.processed
          /\ stats'.inserted = stats.inserted /\ stats'.updated = stats.updated

\* C11: the durable tables change only in the step that ends the loop after
\* the last document, which makes durable all the run wrote; no step of
\* the loop makes a write durable, and a step on a failing document keeps
\* every row the earlier documents of the run wrote, so that the commit
\* still carries them.
C11_SingleCommitAfterLoop ==
    [][/\ committed' # committed =>
            (pc = "loop" /\ idx = Len(folder) /\ pc' = "done")
       /\ pc' = "done" => committed' = [books |-> books, descs |-> descs]
       /\ pc = "loop" => RowsKept
       /\ DocumentFailed => (committed' = committed /\ pc' = "loop")]_vars

\* C11 witness: a run whose second document failed at the store ended, and
\* the item and the description written for the first document are durable
C11_Witness ==
    /\ pc = "done" /\ run = 1
    /\ Len(folder) = 2
    /\ folder[2].fault = "reject_desc"
    /\ stats.books_created = 1 /\ stats.inserted = 1 /\ stats.updated = 0
    /\ \/ stats.errors # <<>>
       \/ (variant # "mcp" /\ stats.processed = 2)
    /\ Len(committed.books) = 1 /\ Cardinality(committed.descs) = 1
    /\ committed = [books |-> books, descs |-> descs]

\* the step is the loop body for a classified, readable document whose
\* extraction matched no label, on a catalog that can be read
StepOnEmptyDocument ==
    /\ pc = "loop" /\ idx < Len(folder)
    /\ booksTable
    /\ IsWordFile(folder[idx + 1].name)
    /\ determine_collection_from_filename(folder[idx + 1].name).id # 0
    /\ folder[idx + 1].readable
    /\ folder[idx + 1].data = EmptyMap

\* C12: a document with an empty field map is a soft skip: the step creates
\* no item, inserts and updates no description, goes on to the next
\* document and adds nothing to the errors of the run.
C12_EmptyMapSoftSkip ==
    [][StepOnEmptyDocument =>
         /\ books' = books /\ descs' = descs
         /\ stats'.books_created = stats.books_created
         /\ stats'.inserted = stats.inserted /\ stats'.updated = stats.updated
         /\ pc' = "loop" /\ idx' = idx + 1
         /\ stats'.errors = stats.errors]_vars

\* the step is the loop body of the lookup-only driver for a classified
\* document whose call number matches no item of its collection
StepOnMissingItem ==
    /\ pc = "loop" /\ idx < Len(folder)
    /\ variant = "dbu"
    /\ booksTable
    /\ IsWordFile(folder[idx + 1].name)
    /\ determine_collection_from_filename(folder[idx + 1].name).id # 0
    /\ find_matching_book(
          books, upper(folder[idx + 1].name.token),
          determine_collection_from_filename(folder[idx + 1].name).id) = NoBook

\* C13: with creation disabled, a document whose call number matches no
\* item of its collection writes no item and no description, adds exactly
\* one to not_found, and the run goes on to the next document.
C13_NotFoundIsCountedSkip ==
    [][StepOnMissingItem =>
         /\ books' = books /\ descs' = descs
         /\ stats'.not_found = stats.not_found + 1
         /\ stats'.inserted = stats.inserted /\ stats'.updated = stats.updated
         /\ stats'.books_created = stats.books_created
         /\ pc' = "loop" /\ idx' = idx + 1]_vars

\* C13 witness: the lookup-only run counted its first document as not
\* found, went on, wrote the description of the second and ended
C13_Witness ==
    /\ variant = "dbu" /\ pc = "done" /\ run = 1
    /\ Len(folder) = 2
    /\ find_matching_book(
          books, upper(folder[1].name.token),
          determine_collection_from_filename(folder[1].name).id) = NoBook
    /\ determine_collection_from_filename(folder[1].name).id # 0
    /\ IsWordFile(folder[1].name)
    /\ stats.not_found = 1
    /\ stats.inserted + stats.updated = 1

(***************************************************************************)
(* Properties of the normalizer (SpecNorm).                                *)
(***************************************************************************)
\* C14: what normalize_book_number returns is a fixed point of it, and
\* 5A01 and 5A1 both normalize to 5A1.
C14_NormalizeIdempotent ==
    fcall.fn = "normalize_book_number" =>
        /\ normalize_book_number(fcall.ret) = fcall.ret
        /\ fcall.arg \in {N5A01, N5A1} => fcall.ret = N5A1

\* C14 witness: an input that is trimmed, uppercased and loses two zeros
\* was normalized to a different string
C14_Witness ==
    /\ fcall.fn = "normalize_book_number"
    /\ fcall.arg = <<"5", "a", "0", "0", "1">>
    /\ fcall.ret = N5A1

\* t is s without its leading and trailing whitespace
Trimmed(s, t) ==
    \E i \in 1..Len(s) + 1, j \in 0..Len(s) :
        /\ t = SubSeq(s, i, j)
        /\ \A k \in 1..Len(s) : (k < i \/ k > j) => s[k] \in SpaceChars
        /\ t # <<>> => (t[1] \notin SpaceChars /\ t[Len(t)] \notin SpaceChars)

\* u is t with its lowercase letters replaced by the uppercase ones
Uppercased(t, u) ==
    /\ Len(u) = Len(t)
    /\ \A k \in 1..Len(t) :
          IF t[k] \in LowerChars THEN u[k] \in UpperChars /\ UpperChar(t[k]) = u[k]
          ELSE u[k] = t[k]

\* the splits <<p, q>> of u into digits u[1..p], letters u[p+1..q] and
\* digits u[q+1..Len(u)], the three of them non-empty
Shape(u) ==
    {pq \in (1..Len(u)) \X (1..Len(u)) :
        /\ pq[1] < pq[2] /\ pq[2] < Len(u)
        /\ \A k \in 1..pq[1] : u[k] \in DigitChars
        /\ \A k \in (pq[1] + 1)..pq[2] : u[k] \in UpperChars
        /\ \A k \in (pq[2] + 1)..Len(u) : u[k] \in DigitChars}

\* z is the digit group num without its leading zeros (one digit is kept
\* when num is all zeros)
ZerosDropped(num, z) ==
    \E k \in 0..(Len(num) - 1) :
        /\ z = SubSeq(num, k + 1, Len(num))
        /\ \A m \in 1..k : num[m] = "0"
        /\ Len(z) = 1 \/ z[1] # "0"

\* r is what the contract gives for the trimmed, uppercased string u
Normalized(u, r) ==
    IF Shape(u) = {} THEN r = u
    ELSE \A pq \in Shape(u) :
            /\ Len(r) > pq[2]
            /\ SubSeq(r, 1, pq[2]) = SubSeq(u, 1, pq[2])
            /\ ZerosDropped(SubSeq(u, pq[2] + 1, Len(u)),
                            SubSeq(r, pq[2] + 1, Len(r)))

\* C15: normalize_book_number returns the empty string for an empty or
\* absent input; for a trimmed, uppercased input of the shape
\* digits+letters+digits that string with the leading zeros of the last
\* group dropped and the first group and the letters kept; in every other
\* case the trimmed, uppercased input.
C15_NormalizeContract ==
    fcall.fn = "normalize_book_number" =>
        IF fcall.arg = None \/ fcall.arg = <<>> THEN fcall.ret = <<>>
        ELSE \E t \in {SubSeq(fcall.arg, i, j) :
                         i \in 1..Len(fcall.arg) + 1, j \in 0..Len(fcall.arg)} :
                /\ Trimmed(fcall.arg, t)
                /\ \A u \in {upper(t)} :
                      Uppercased(t, u) /\ Normalized(u, fcall.ret)

\* C15 witness: the zero of the first group is kept, the zero of the last
\* group dropped, the letter uppercased
C15_Witness ==
    /\ fcall.fn = "normalize_book_number"
    /\ fcall.arg = <<"0", "5", "a", "0", "1">>
    /\ fcall.ret = <<"0", "5", "A", "1">>

(***************************************************************************)
(* Properties of the classifier (SpecClassify).                            *)
(***************************************************************************)
NoCollection == [id |-> 0, name |-> "None"]

\* the classification of a file name whose token starts with lead, as the
\* claim gives it
ClassifiedAs(lead) ==
    IF lead = "5" THEN [id |-> CINQUECENTINE_COLLECTION_ID, name |-> "cinquecentine"]
    ELSE IF lead = "4" THEN [id |-> INCUNABOLI_COLLECTION_ID, name |-> "incunaboli"]
    ELSE NoCollection

\* C16 as stated: a file name that contains the markers around TOKEN is
\* classified cinquecentine with TOKEN when TOKEN starts with 5, incunaboli
\* with TOKEN when it starts with 4; every other file name has no
\* collection.
C16_Original ==
    fcall.fn = "determine_collection_from_filename" =>
        IF fcall.arg.marker /\ fcall.arg.token # <<>>
           /\ Head(fcall.arg.token) \in {"5", "4"}
        THEN /\ fcall.ret.collection = ClassifiedAs(Head(fcall.arg.token))
             /\ fcall.ret.file_number = fcall.arg.token
        ELSE fcall.ret.collection = NoCollection

\* C16 amended: a file name that contains the markers around a TOKEN made
\* of letters, digits and parentheses is classified cinquecentine when
\* TOKEN starts with 5 and incunaboli when it starts with 4, and its call
\* number is TOKEN uppercased; every other file name has no collection.
C16_ClassifiedByLeadingDigit ==
    fcall.fn = "determine_collection_from_filename" =>
        IF /\ fcall.arg.marker /\ fcall.arg.token # <<>>
           /\ \A k \in 1..Len(fcall.arg.token) :
                 fcall.arg.token[k] \in
                     DigitChars \cup UpperChars \cup LowerChars \cup {"(", ")"}
           /\ Head(fcall.arg.token) \in {"5", "4"}
        THEN /\ fcall.ret.collection = ClassifiedAs(Head(fcall.arg.token))
             /\ Uppercased(fcall.arg.token, fcall.ret.file_number)
        ELSE fcall.ret.collection = NoCollection

\* C16 witness: a file name with a lowercase token was classified
\* cinquecentine and its call number is the token uppercased
C16_Witness ==
    /\ fcall.fn = "determine_collection_from_filename"
    /\ fcall.arg = FileName(TRUE, N5a1, "docx")
    /\ fcall.ret.collection.name = "cinquecentine"
    /\ fcall.ret.file_number = N5A1

(***************************************************************************)
(* Properties of the assembler (SpecAssemble).                             *)
(***************************************************************************)
\* the run is hyperlinked, its relationship resolves to a URL and its text
\* is not blank
EmitsAnchor(r) ==
    /\ r.hyperlink
    /\ r.rel_id \in DOMAIN rels
    /\ \E k \in 1..Len(r.text) : r.text[k] \notin SpaceChars

\* the concatenation in run order of the anchor of each such run and of the
\* raw text of every other run
InRunOrder(paragraph) ==
    Join([i \in 1..Len(paragraph) |->
            IF EmitsAnchor(paragraph[i])
            THEN <<OpenTag(rels[paragraph[i].rel_id])>> \o paragraph[i].text
                 \o <<CloseTag>>
            ELSE paragraph[i].text])

\* C19: the assembled string of a paragraph is the concatenation in run
\* order of the anchors of its hyperlinked runs with a resolving URL and a
\* non-blank text and of the raw text of its other runs; a paragraph none
\* of whose runs yields an anchor assembles to its trimmed plain text.
C19_AssembledInRunOrder ==
    fcall.fn = "extract_hyperlinks_from_paragraph" =>
        IF \E i \in 1..Len(fcall.arg.paragraph) : EmitsAnchor(fcall.arg.paragraph[i])
        THEN fcall.ret = InRunOrder(fcall.arg.paragraph)
        ELSE Trimmed(ParagraphText(fcall.arg.paragraph), fcall.ret)

\* C25: in every state of a batch run every description row references an
\* item of the catalog, and its collection_id and number are the
\* collection_id and the stored number of that item.
C25_DescriptionCopiesItsItem ==
    \A d \in descs :
        \E i \in 1..Len(books) :
            /\ books[i].book_id = d.book_id
            /\ books[i].collection_id = d.collection_id
            /\ books[i].number = d.number

\* C25 witness: the first document, whose file name spells the call number
\* 5A01, had its description inserted for the item stored as 5A1
C25_Witness ==
    /\ pc = "loop" /\ idx = 1 /\ stats.inserted = 1
    /\ folder[1].name.token = N5A01
    /\ \E d \in descs : d.book_id = 1 /\ d.number = N5A1
    /\ books[1].number = N5A1

\* the step is the loop body for a document that reaches the matcher
StepOnMatchedDocument ==
    /\ pc = "loop" /\ idx' = idx + 1
    /\ booksTable
    /\ ~SkippedBeforeLookup(folder[idx'])

\* the item the matcher gives the document of the step when the store
\* takes the INSERT
ItemOfStep ==
    IF variant = "dbu"
    THEN find_matching_book(
             books, upper(folder[idx'].name.token),
             determine_collection_from_filename(folder[idx'].name).id)
    ELSE find_or_create_book(
             books, upper(folder[idx'].name.token),
             determine_collection_from_filename(folder[idx'].name).id,
             AuthorOf(folder[idx'].data), FALSE).match

\* the step is the loop body for a document whose item is not in the
\* catalog and whose INSERT INTO books the store rejects
ItemCreationFailed ==
    /\ StepOnMatchedDocument
    /\ variant \in {"fast", "mcp"}
    /\ folder[idx'].fault = "reject_book"
    /\ find_or_create_book(
          books, upper(folder[idx'].name.token),
          determine_collection_from_filename(folder[idx'].name).id,
          AuthorOf(folder[idx'].data), TRUE).status = "error"

\* the step is the loop body for a document whose item is found or created,
\* has no Italian description, and whose INSERT INTO book_descriptions the
\* store rejects
DescriptionInsertFailed ==
    /\ StepOnMatchedDocument
    /\ folder[idx'].fault = "reject_desc"
    /\ ItemOfStep # NoBook
    /\ ItRows(descs, ItemOfStep.book_id) = {}

\* the run ends: its counters of created items and inserted descriptions
\* are the numbers of rows it added to books and to book_descriptions
CountersAreRowsAdded ==
    (pc = "loop" /\ pc' = "done") =>
        /\ stats.books_created = Len(books) - Len(committed.books)
        /\ stats.inserted = Cardinality(descs) - Cardinality(committed.descs)

\* C27 as stated: at the end of a run books_created and inserted are the
\* numbers of rows added, and a document whose item creation or description
\* insert failed adds to neither counter.
C27_Original ==
    [][/\ CountersAreRowsAdded
       /\ (ItemCreationFailed \/ DescriptionInsertFailed) =>
             /\ stats'.books_created = stats.books_created
             /\ stats'.inserted = stats.inserted]_vars

\* C27: at the end of a run books_created and inserted are the numbers of
\* rows the run added to books and to book_descriptions.  A document whose
\* item creation failed adds to neither counter and writes nothing; a
\* document whose description insert failed adds nothing to inserted and
\* no description, and adds one to books_created exactly when its item was
\* created, which stays in the catalog.
C27_CountersAreRowsAdded ==
    [][/\ CountersAreRowsAdded
       /\ ItemCreationFailed =>
             /\ stats'.books_created = stats.books_created
             /\ stats'.inserted = stats.inserted
             /\ books' = books /\ descs' = descs
       /\ DescriptionInsertFailed =>
             /\ stats'.inserted = stats.inserted
             /\ descs' = descs
             /\ stats'.books_created - stats.books_created
                  = Len(books') - Len(books)]_vars

\* C27 witness: a run ended that created the item of a document whose
\* description insert failed: one item counted and added, no description
C27_Witness ==
    /\ pc = "done" /\ run = 1
    /\ \E i \in 1..Len(folder) : folder[i].fault = "reject_desc"
    /\ stats.books_created = 1 /\ stats.inserted = 0
    /\ Len(books) = 1 /\ descs = {}

\* the counters of the run keep their order: descriptions written, then
\* documents processed, then documents visited
CountersOrdered(st, visited, rev) ==
    /\ st.inserted + st.updated <= st.processed
    /\ st.processed <= visited
    /\ rev = "mcp" => st.processed = st.inserted + st.updated

\* C28: at every point of a run of any of the three drivers
\* inserted + updated <= processed <= documents visited, a document adds at
\* most one to processed, and in mcp_server processed = inserted + updated.
C28_ProcessedBoundsWrites ==
    [][/\ CountersOrdered(stats, idx, variant)
       /\ CountersOrdered(stats', idx', variant')
       /\ idx' = idx + 1 => stats'.processed - stats.processed \in {0, 1}]_vars

\* C28 witness: a run of fast_process ended with two documents processed
\* and one description written
C28_Witness ==
    /\ variant = "fast" /\ pc = "done"
    /\ idx = 2 /\ stats.processed = 2
    /\ stats.inserted + stats.updated = 1

\* C30: in every state of a run of mcp_server the not_found counter is 0:
\* the matcher returns no item only with an error status, which the loop
\* records as an error string before it looks at the item.
C30_McpNeverCountsNotFound ==
    variant = "mcp" => stats.not_found = 0

\* C30 witness: a run of mcp_server ended in which the item of a document
\* was not found and could not be created: the error is in the list and
\* not_found is 0
C30_Witness ==
    /\ variant = "mcp" /\ pc = "done"
    /\ \E j \in 1..Len(stats.errors) : stats.errors[j][2] = "book"
    /\ stats.not_found = 0

\* two items of one collection have the same normalized call number
DuplicateItems ==
    \E i, j \in 1..Len(books) :
        /\ i # j
        /\ books[i].collection_id = books[j].collection_id
        /\ normalize_book_number(books[i].number)
             = normalize_book_number(books[j].number)

\* C26: the database holds two items of one collection with the same
\* normalized call number only after two runs overlapped: a run alone, or
\* two runs one after the other, never leave such a pair.
C26_DuplicatesOnlyWhenRunsOverlap == DuplicateItems => overlap.overlapped

\* C26 witness: two overlapping runs both missed the call number and both
\* inserted an item for it, and both have committed
C26_Witness ==
    /\ overlap.w # <<>>
    /\ \A k \in Workers : overlap.w[k].pc = "done"
                           /\ overlap.w[k].stats.books_created = 1
    /\ overlap.overlapped
    /\ DuplicateItems

\* the text holds the label token of key: the key, then a colon
ContainsLabel(text, key) == \E i \in 1..Len(text) : KeyAt(text, key, i)

\* C17: the value extracted for a label holds no label token of another
\* label of the vocabulary, so no value runs into the next label or into
\* that label's value, also when the label's own value is blank.
C17_ValueStopsAtNextLabel ==
    fcall.fn = "extract_data_from_docx" =>
        \A c \in DOMAIN fcall.ret :
            \A f \in FIELD_MAP :
                (f.key # <<>> /\ f.db_col # c) =>
                    ~ContainsLabel(fcall.ret[c], f.key)

\* the label token of key stands in the text with something after its colon
LabelMatches(text, key) ==
    \E i \in 1..Len(text) : KeyAt(text, key, i) /\ i + Len(key) < Len(text)

\* the canonical keys of the labels that match in the document
MatchedColumns(rev, doc) ==
    {f.db_col : f \in {g \in FIELD_MAP :
                         /\ g.db_col # "None"
                         /\ \/ LabelMatches(FullTextWithLinks(rev, doc), g.key)
                            \/ LabelMatches(PlainText(doc), g.key)}}

\* C18: the field map has exactly one entry for each label of the
\* vocabulary that matched; a label that did not match has no key, and
\* every key is a canonical key of the vocabulary.
C18_KeysAreMatchedLabels ==
    fcall.fn = "extract_data_from_docx" =>
        /\ DOMAIN fcall.ret = MatchedColumns(fcall.arg.rev, fcall.arg.doc)
        /\ DOMAIN fcall.ret \subseteq {"author", "title"}

\* a document with the author label and a label outside the vocabulary,
\* without the title label, gave a map with the author key alone
C18_Witness ==
    /\ fcall.fn = "extract_data_from_docx"
    /\ DOMAIN fcall.ret = {"author"}
    /\ \E i \in 1..Len(fcall.arg.doc) :
          ContainsLabel(ParagraphText(fcall.arg.doc[i]), <<"N", "o", "t", "e">>)

\* C24: a label that matches in the text with links gets the value found
\* there, anchors included; the plain text gives the value only of a label
\* that does not match in the text with links; a label that matches in
\* neither text has no entry.
C24_LinkTextBeforePlainText ==
    fcall.fn = "extract_data_from_docx" =>
        \A f \in {g \in FIELD_MAP : g.db_col # "None"} :
            LET full == FullTextWithLinks(fcall.arg.rev, fcall.arg.doc)
                plain == PlainText(fcall.arg.doc)
            IN  IF LabelMatches(full, f.key)
                THEN /\ f.db_col \in DOMAIN fcall.ret
                     /\ fcall.ret[f.db_col]
                          = CleanValue(Search(full, f.key).group)
                ELSE IF LabelMatches(plain, f.key)
                THEN /\ f.db_col \in DOMAIN fcall.ret
                     /\ fcall.ret[f.db_col]
                          = CleanValue(Search(plain, f.key).group)
                ELSE f.db_col \notin DOMAIN fcall.ret

\* C24 witness: the title, whose value is a hyperlink, was taken with its
\* anchor from the text with links, and the author, whose label is inside a
\* hyperlink and so matches in the plain text only, was taken from there
C24_Witness ==
    /\ fcall.fn = "extract_data_from_docx"
    /\ DOMAIN fcall.ret = {"author", "title"}
    /\ fcall.ret["title"] = <<OpenTag(rels["rId1"]), "D", "c", CloseTag>>
    /\ fcall.ret["author"] = <<"J", "d">>
    /\ ~LabelMatches(FullTextWithLinks(fcall.arg.rev, fcall.arg.doc), Autore)
====
